---- MODULE Spec2Model ----
(***************************************************************************)
(* Adaptive 3D asset selection subsystem of frantic-page.                  *)
(*                                                                         *)
(*   Part I    Asset Loading Controller   (KampferModel + ProgressTracker) *)
(*   Part II   Capability Prober + Snapshot Cache   (PerformanceDetector)  *)
(*   Part III  Scoring Engine             (ModelRecommendationEngine)      *)
(*                                                                         *)
(* Each part is a state machine over its own variables.  LoadSpec,         *)
(* DetectSpec and RecommendSpec run one part and leave the variables of    *)
(* the other parts at their initial values.                                *)
(***************************************************************************)
EXTENDS Integers, Sequences, FiniteSets, TLC

VARIABLES
    \* ---- Part I: KampferModel state (useState hooks) and its collaborators
    selectedModelId,    \* useState('zeon-standard')
    loadingStatus,      \* useState<LoadingStatus>('pending')
    loadingProgress,    \* useState(null): NoProgress or the last reported percentage
    error,              \* useState<string | null>(null)
    timers,             \* pending setTimeout callbacks created by handleLoadingProgress
    progress,           \* useProgress().progress as seen by ProgressTracker
    tracker,            \* is ProgressTracker mounted (the model content rendered)
    hasError,           \* ErrorBoundary.state.hasError
    effectsDue,         \* a re-render of KampferModel whose passive effects have not run yet
    lastEvent,          \* history: the callback of the last step that set the status
    \* ---- Part II: PerformanceDetector
    now,                \* Date.now(), in minutes
    cache,              \* this.cache.get('performance_metrics')
    calls,              \* the detectPerformance() invocations in flight, per caller
    env,                \* what the browser reports (fixed for one run)
    speedTestRun,          \* a performNetworkSpeedTest() run: its position and its fetches
    \* ---- Part III: ModelRecommendationEngine
    defaultWeights,     \* this.defaultWeights
    recInput,           \* history: arguments of the last calculateRecommendation call
    eligibleModels,     \* history: its const eligibleModels
    scoredModels,       \* history: its const scoredModels, after the sort
    recResult,          \* history: what it returned (or the error it threw)
    refInput,           \* history: arguments of the first call drawn from ReferenceInputs
    refResult,          \* history: what that call returned
    interleaved,        \* history: a call with other arguments came after that call
    valInput,           \* the descriptor handed to validateModelConfiguration
    valErrors,          \* what validateModelConfiguration returned
    \* ---- Part IV: SmartModelSelector
    selector            \* its props, its useState hooks, its detections and timeouts

loadVars == <<selectedModelId, loadingStatus, loadingProgress, error, timers,
              progress, tracker, hasError, effectsDue, lastEvent>>
detVars  == <<now, cache, calls, env, speedTestRun>>
recVars  == <<defaultWeights, recInput, eligibleModels, scoredModels, recResult,
              refInput, refResult, interleaved, valInput, valErrors>>
selVars  == <<selector>>
vars     == <<loadVars, detVars, recVars, selVars>>

(***************************************************************************)
(* Part I.  Asset Loading Controller                                       *)
(***************************************************************************)

\* The ids of availableModels (KampferModel.tsx 122-157).
ModelIds == {"zeon-standard", "kampfer-hd"}

LoadingStatus == {"pending", "loading", "processing", "ready", "error"}

\* loadingProgress = null
NoProgress == -1

\* percentage: Math.round(progress) as ProgressTracker reports it: the start of a
\* load, somewhere on the way, the end.
ProgressValues == {0, 50, 100}

NoError == "null"
LoadErrorMessage == "Failed to load 3D model"

\* The model caps the number of timeouts pending at once.
MaxTimers == 2

\* A timeout belongs to the load that was current when the 100% progress event
\* created it; "stale" marks the ones whose load was cancelled or replaced since
\* (history only: the code keeps no handle on its timeouts).
NoTimers == [toReady |-> 0, toPending |-> 0, staleToReady |-> 0, staleToPending |-> 0]

TimerCount(t) == t.toReady + t.toPending + t.staleToReady + t.staleToPending

Supersede(t) ==
    [toReady |-> 0, toPending |-> 0,
     staleToReady |-> t.staleToReady + t.toReady,
     staleToPending |-> t.staleToPending + t.toPending]

\* The controller state the handlers transform (the values the setters queue up;
\* React applies the batch of one callback run together). lastEvent names the
\* callback of the batch that set the status last ("progress": none did).
Ctl == [selectedModelId |-> selectedModelId, loadingStatus |-> loadingStatus,
        loadingProgress |-> loadingProgress, error |-> error, timers |-> timers,
        lastEvent |-> "none"]

\* handleModelChange(modelId)
handleModelChange(k, modelId) ==
    [k EXCEPT !.selectedModelId = modelId,
              !.error = NoError,
              !.loadingStatus = "loading",
              !.timers = Supersede(k.timers),
              !.lastEvent = "start"]

\* onLoadStart={() => setLoadingStatus('loading')}
onLoadStart(k) ==
    [k EXCEPT !.loadingStatus = "loading", !.lastEvent = "start"]

\* handleLoadingProgress(progress)
handleLoadingProgress(k, percentage) ==
    IF percentage >= 100
    THEN [k EXCEPT !.loadingProgress = percentage,
                   !.loadingStatus = "processing",
                   !.timers.toReady = @ + 1,
                   !.lastEvent = "progress100"]
    ELSE [k EXCEPT !.loadingProgress = percentage,
                   !.lastEvent = IF @ = "none" THEN "progress" ELSE @]

\* onLoadComplete={() => setLoadingStatus('ready')}
onLoadComplete(k) ==
    [k EXCEPT !.loadingStatus = "ready", !.lastEvent = "complete"]

\* handleLoadingError(error)
handleLoadingError(k) ==
    [k EXCEPT !.error = LoadErrorMessage, !.loadingStatus = "error",
              !.lastEvent = "error"]

\* handleLoadingCancel()
handleLoadingCancel(k) ==
    [k EXCEPT !.loadingStatus = "pending",
              !.loadingProgress = NoProgress,
              !.error = NoError,
              !.timers = Supersede(k.timers),
              !.lastEvent = "cancel"]

\* handleLoadingRetry()
handleLoadingRetry(k) ==
    [k EXCEPT !.error = NoError, !.loadingStatus = "loading", !.lastEvent = "retry"]

\* The three effects of ProgressTracker, in declaration order, for progress p.
TrackerEffects(k, p, runStart, runProgress, runComplete) ==
    LET k1 == IF runStart /\ p = 0 THEN onLoadStart(k) ELSE k
        k2 == IF runProgress THEN handleLoadingProgress(k1, p) ELSE k1
        k3 == IF runComplete /\ p = 100 THEN onLoadComplete(k2) ELSE k2
    IN  k3

\* Did the batch change what KampferModel renders (a bail-out otherwise)?
Rerenders(k) ==
    \/ k.selectedModelId # selectedModelId
    \/ k.loadingStatus # loadingStatus
    \/ k.loadingProgress # loadingProgress
    \/ k.error # error

\* Commit a batch: the state is replaced, and a re-render hands ProgressTracker new
\* onLoadStart/onLoadComplete closures, so their effects are due again.
Commit(k, mounted) ==
    /\ selectedModelId' = k.selectedModelId
    /\ loadingStatus' = k.loadingStatus
    /\ loadingProgress' = k.loadingProgress
    /\ error' = k.error
    /\ timers' = k.timers
    /\ lastEvent' = k.lastEvent
    /\ tracker' = mounted
    /\ effectsDue' = (mounted /\ Rerenders(k))
    /\ UNCHANGED <<detVars, recVars, selVars>>

LoadInit ==
    /\ selectedModelId = "zeon-standard"
    /\ loadingStatus = "pending"
    /\ loadingProgress = NoProgress
    /\ error = NoError
    /\ timers = NoTimers
    /\ progress = 0
    /\ tracker = FALSE
    /\ hasError = FALSE
    /\ effectsDue = FALSE
    /\ lastEvent = "none"

\* handleModelSelect/applyRecommendation of SmartModelSelector call onModelChange.
\* Another url suspends ModelContent until useGLTF has the new model: ProgressTracker
\* runs no effects meanwhile.
SelectModel(modelId) ==
    /\ ~effectsDue
    /\ Commit(handleModelChange(Ctl, modelId), tracker /\ modelId = selectedModelId)
    /\ UNCHANGED <<progress, hasError>>

\* useGLTF(url) has the model: ModelContent renders and ProgressTracker mounts, its
\* three effects run with the progress the loading manager reports then.
ModelReady(p) ==
    /\ ~effectsDue /\ ~tracker /\ ~hasError
    /\ p >= 100 => TimerCount(timers) < MaxTimers
    /\ progress' = p
    /\ Commit(TrackerEffects(Ctl, p, TRUE, TRUE, TRUE), TRUE)
    /\ UNCHANGED hasError

\* useProgress() reports another value: every effect has a changed dependency.
\* With p = progress only loaded/total changed: the onProgress effect alone runs.
ProgressUpdate(p) ==
    /\ ~effectsDue /\ tracker
    /\ p >= 100 => TimerCount(timers) < MaxTimers
    /\ progress' = p
    /\ Commit(TrackerEffects(Ctl, p, p # progress, TRUE, p # progress), TRUE)
    /\ UNCHANGED hasError

\* The effects that depend on the inline closures onLoadStart / onLoadComplete run
\* again after a re-render of KampferModel (handleLoadingProgress is a stable
\* useCallback, so the onProgress effect does not).
RunEffects ==
    /\ effectsDue
    /\ Commit(TrackerEffects(Ctl, progress, TRUE, FALSE, TRUE), TRUE)
    /\ UNCHANGED <<progress, hasError>>

\* useGLTF throws while the model loads: ErrorBoundary.getDerivedStateFromError and
\* componentDidCatch -> onError. The boundary renders its fallback from then on.
LoadFails ==
    /\ ~effectsDue /\ ~tracker /\ ~hasError
    /\ hasError' = TRUE
    /\ Commit(handleLoadingError(Ctl), FALSE)
    /\ UNCHANGED progress

\* The cancel button of ModelLoadingIndicator (rendered while loading or processing).
Cancel ==
    /\ ~effectsDue
    /\ loadingStatus \in {"loading", "processing"}
    /\ Commit(handleLoadingCancel(Ctl), tracker)
    /\ UNCHANGED <<progress, hasError>>

\* The retry button of ModelLoadingIndicator (rendered in the error state).
Retry ==
    /\ ~effectsDue
    /\ loadingStatus = "error"
    /\ Commit(handleLoadingRetry(Ctl), tracker)
    /\ UNCHANGED <<progress, hasError>>

\* setTimeout(() => { setLoadingStatus('ready'); setTimeout(..., 2000) }, 1000)
processingTimeout(k, stale) ==
    IF stale
    THEN [k EXCEPT !.loadingStatus = "ready",
                   !.timers.staleToReady = @ - 1,
                   !.timers.staleToPending = @ + 1,
                   !.lastEvent = "processed"]
    ELSE [k EXCEPT !.loadingStatus = "ready",
                   !.timers.toReady = @ - 1,
                   !.timers.toPending = @ + 1,
                   !.lastEvent = "processed"]

\* setTimeout(() => setLoadingStatus('pending'), 2000)
graceTimeout(k, stale) ==
    IF stale
    THEN [k EXCEPT !.loadingStatus = "pending",
                   !.timers.staleToPending = @ - 1,
                   !.lastEvent = "grace"]
    ELSE [k EXCEPT !.loadingStatus = "pending",
                   !.timers.toPending = @ - 1,
                   !.lastEvent = "grace"]

ProcessingTimerFires(stale) ==
    /\ ~effectsDue
    /\ IF stale THEN timers.staleToReady > 0 ELSE timers.toReady > 0
    /\ Commit(processingTimeout(Ctl, stale), tracker)
    /\ UNCHANGED <<progress, hasError>>

GraceTimerFires(stale) ==
    /\ ~effectsDue
    /\ IF stale THEN timers.staleToPending > 0 ELSE timers.toPending > 0
    /\ Commit(graceTimeout(Ctl, stale), tracker)
    /\ UNCHANGED <<progress, hasError>>

LoadNext ==
    \/ \E m \in ModelIds : SelectModel(m)
    \/ \E p \in ProgressValues : ModelReady(p)
    \/ \E p \in ProgressValues : ProgressUpdate(p)
    \/ RunEffects
    \/ LoadFails
    \/ Cancel
    \/ Retry
    \/ \E stale \in BOOLEAN : ProcessingTimerFires(stale)
    \/ \E stale \in BOOLEAN : GraceTimerFires(stale)


(***************************************************************************)
(* Part II.  Capability Prober and Snapshot Cache                          *)
(*                                                                         *)
(* Units: throughput in kbit/s (1 Mbps = 1000), memory in MB (1 GB = 1024),*)
(* battery level in percent, pixel ratio in hundredths, time in minutes.   *)
(***************************************************************************)

Max(a, b) == IF a >= b THEN a ELSE b
Min(a, b) == IF a <= b THEN a ELSE b

\* a JavaScript undefined where a number is expected
Undefined == -1

\* private readonly CACHE_DURATION = 5 * 60 * 1000, in minutes
CACHE_DURATION == 5

\* The clock of the model stops here.
MaxTime == 6

\* What the browser reports. fetches: the outcome of fetch() for each entry of
\* testUrls: "reject", "notok" (a response with ok = false) or the blob size in
\* bytes and the elapsed milliseconds. latency: the value of measureLatency().
Desktop ==
    [connection |-> [present |-> FALSE, effectiveType |-> "4g", downlink |-> 0,
                     rtt |-> 0, saveData |-> FALSE],
     fetches |-> <<[kind |-> "ok", bytes |-> 25000, ms |-> 8],
                   [kind |-> "ok", bytes |-> 500, ms |-> 4]>>,
     latency |-> 30,
     deviceMemory |-> 8192, hardwareConcurrency |-> 8,
     gl |-> [webgl2 |-> TRUE, webgl1 |-> TRUE, renderer |-> "nvidia",
             maxTextureSize |-> 16384, viewport |-> <<16384, 16384>>,
             highp |-> TRUE, mediump |-> TRUE, webgpu |-> TRUE],
     screen |-> [width |-> 1920, height |-> 1080, pixelRatio |-> 100, colorDepth |-> 24],
     battery |-> [api |-> "absent", level |-> 100, charging |-> TRUE]]

Phone ==
    [connection |-> [present |-> TRUE, effectiveType |-> "3g", downlink |-> 1500,
                     rtt |-> 300, saveData |-> TRUE],
     fetches |-> <<[kind |-> "reject", bytes |-> 0, ms |-> 0],
                   [kind |-> "ok", bytes |-> 500, ms |-> 4]>>,
     latency |-> 69,
     deviceMemory |-> 2048, hardwareConcurrency |-> 4,
     gl |-> [webgl2 |-> FALSE, webgl1 |-> TRUE, renderer |-> "other",
             maxTextureSize |-> 4096, viewport |-> <<4096, 4096>>,
             highp |-> FALSE, mediump |-> TRUE, webgpu |-> FALSE],
     screen |-> [width |-> 960, height |-> 540, pixelRatio |-> 200, colorDepth |-> 24],
     battery |-> [api |-> "ok", level |-> 15, charging |-> FALSE]]

Offline ==
    [connection |-> [present |-> TRUE, effectiveType |-> "2g", downlink |-> 250,
                     rtt |-> 600, saveData |-> TRUE],
     fetches |-> <<[kind |-> "reject", bytes |-> 0, ms |-> 0],
                   [kind |-> "notok", bytes |-> 0, ms |-> 0]>>,
     latency |-> 20,
     deviceMemory |-> 0, hardwareConcurrency |-> 0,
     gl |-> [webgl2 |-> FALSE, webgl1 |-> FALSE, renderer |-> "other",
             maxTextureSize |-> 0, viewport |-> <<0, 0>>,
             highp |-> FALSE, mediump |-> FALSE, webgpu |-> FALSE],
     screen |-> [width |-> 1440, height |-> 900, pixelRatio |-> 0, colorDepth |-> 0],
     battery |-> [api |-> "fails", level |-> 50, charging |-> FALSE]]

Workstation ==
    [connection |-> [present |-> FALSE, effectiveType |-> "4g", downlink |-> 0,
                     rtt |-> 0, saveData |-> FALSE],
     fetches |-> <<[kind |-> "ok", bytes |-> 50000, ms |-> 4],
                   [kind |-> "ok", bytes |-> 500, ms |-> 4]>>,
     latency |-> 20,
     deviceMemory |-> 8192, hardwareConcurrency |-> 16,
     gl |-> [webgl2 |-> TRUE, webgl1 |-> TRUE, renderer |-> "nvidia",
             maxTextureSize |-> 16384, viewport |-> <<16384, 16384>>,
             highp |-> TRUE, mediump |-> TRUE, webgpu |-> TRUE],
     screen |-> [width |-> 3840, height |-> 2160, pixelRatio |-> 100, colorDepth |-> 24],
     battery |-> [api |-> "absent", level |-> 100, charging |-> TRUE]]

Environments == {Desktop, Phone, Offline, Workstation}

\* testUrls: two remote resources, then a data: URL placeholder
testUrls == <<"https", "https", "data">>

\* getEffectiveTypeFromSpeed(speed)
getEffectiveTypeFromSpeed(speed) ==
    IF speed < 50 THEN "slow-2g"
    ELSE IF speed < 100 THEN "2g"
    ELSE IF speed < 1000 THEN "3g"
    ELSE "4g"

\* performNetworkSpeedTest(): the candidates in order from index i; the first
\* successful fetch decides, and the fallback values follow the last candidate.
RECURSIVE speedTestFrom(_, _)
speedTestFrom(e, i) ==
    IF i > Len(testUrls)
    THEN [speed |-> 10000, latency |-> 50, jitter |-> 5]
    ELSE IF testUrls[i] = "data" THEN speedTestFrom(e, i + 1)
    ELSE IF e.fetches[i].kind # "ok" THEN speedTestFrom(e, i + 1)
    ELSE [speed |-> Max(100, (e.fetches[i].bytes * 8) \div e.fetches[i].ms),
          latency |-> e.latency, jitter |-> 0]

performNetworkSpeedTest(e) == speedTestFrom(e, 1)

\* detectNetworkPerformance(): the speed test never throws (it catches every
\* failure of a candidate), so the catch branch that uses the connection hints
\* is not taken.
detectNetworkPerformance(e) ==
    LET c == e.connection
        effectiveType == IF c.present THEN c.effectiveType ELSE "4g"
        downlink == IF c.present /\ c.downlink # 0 THEN c.downlink ELSE 10000
        rtt == IF c.present /\ c.rtt # 0 THEN c.rtt ELSE 50
        saveData == c.present /\ c.saveData
        speedTest == performNetworkSpeedTest(e)
    IN  [speed |-> speedTest.speed,
         effectiveType |-> getEffectiveTypeFromSpeed(speedTest.speed),
         downlink |-> speedTest.speed,
         rtt |-> Max(rtt, speedTest.latency),
         saveData |-> saveData]

\* detectDeviceCapabilities()
detectDeviceCapabilities(e) ==
    [memory |-> IF e.deviceMemory # 0 THEN e.deviceMemory ELSE 4096,
     cores |-> IF e.hardwareConcurrency # 0 THEN e.hardwareConcurrency ELSE 4]

\* determineShaderPrecision(gl)
determineShaderPrecision(hasGl, g) ==
    IF ~hasGl THEN "low"
    ELSE IF g.highp THEN "high"
    ELSE IF g.mediump THEN "medium"
    ELSE "low"

\* determineGPUTier(capabilities)
determineGPUTier(webglVersion, maxTextureSize, renderer, webgpuSupport, shaderPrecision) ==
    LET score ==
            webglVersion * 20
            + (IF maxTextureSize >= 16384 THEN 30
               ELSE IF maxTextureSize >= 8192 THEN 20
               ELSE IF maxTextureSize >= 4096 THEN 10 ELSE 0)
            + (IF shaderPrecision = "high" THEN 20
               ELSE IF shaderPrecision = "medium" THEN 10 ELSE 0)
            + (IF webgpuSupport THEN 30 ELSE 0)
            + (IF renderer = "nvidia" THEN 20
               ELSE IF renderer = "amd" THEN 15
               ELSE IF renderer = "intel" THEN 10 ELSE 0)
    IN  IF score >= 70 THEN "high" ELSE IF score >= 40 THEN "medium" ELSE "low"

\* detectGPUCapabilities()
detectGPUCapabilities(e) ==
    LET g == e.gl
        hasGl == g.webgl2 \/ g.webgl1
        webglVersion == IF g.webgl2 THEN 2 ELSE IF g.webgl1 THEN 1 ELSE 0
        maxTextureSize == IF hasGl /\ g.maxTextureSize # 0 THEN g.maxTextureSize ELSE 2048
        shaderPrecision == determineShaderPrecision(hasGl, g)
    IN  [tier |-> determineGPUTier(webglVersion, maxTextureSize, g.renderer,
                                   g.webgpu, shaderPrecision),
         webglSupport |-> hasGl,
         webglVersion |-> webglVersion,
         webgpuSupport |-> g.webgpu,
         maxTextureSize |-> maxTextureSize,
         maxViewportDimensions |-> IF hasGl THEN g.viewport ELSE <<1920, 1080>>,
         shaderPrecision |-> shaderPrecision]

\* detectDisplayCapabilities()
detectDisplayCapabilities(e) ==
    [resolution |-> [width |-> e.screen.width, height |-> e.screen.height],
     pixelRatio |-> IF e.screen.pixelRatio # 0 THEN e.screen.pixelRatio ELSE 100,
     colorDepth |-> IF e.screen.colorDepth # 0 THEN e.screen.colorDepth ELSE 24]

\* detectBatteryInfo(): battery.level || 1, battery.charging || true
detectBatteryInfo(e) ==
    IF e.battery.api = "ok"
    THEN [level |-> IF e.battery.level # 0 THEN e.battery.level ELSE 100,
          charging |-> TRUE]
    ELSE [level |-> 100, charging |-> TRUE]

\* calculateOverallScore without the Math.min(100, ...) of the sub-scores: only
\* the sum is clamped.
calculateOverallScore_unclamped(metrics) ==
    LET networkScore == (metrics.networkSpeed * 4) \div 25
        deviceScore == (metrics.deviceMemory * 125) \div 256
        gpuScore == 80 * (CASE metrics.gpuTier = "low" -> 25
                            [] metrics.gpuTier = "medium" -> 60
                            [] metrics.gpuTier = "high" -> 90)
        pixels == metrics.screenResolution.width * metrics.screenResolution.height
        displayScore == (pixels * 5) \div 1296
        score == 6 * networkScore + 5 * deviceScore + 6 * gpuScore + 3 * displayScore
    IN  (Min(160000, Max(0, score)) + 800) \div 1600

\* calculateOverallScore(metrics). The four sub-scores are kept in 1/80 points
\* (network speed/50*100, memory/16*100, the tier table, pixels/(1920*1080)*100,
\* each capped at 100) and the weighted sum in 1/1600 points; the divisions are
\* exact for speeds in steps of 25 kbit/s, memory in steps of 256 MB and pixel
\* counts in steps of 1296.
calculateOverallScore(metrics) ==
    LET networkScore == Min(8000, (metrics.networkSpeed * 4) \div 25)
        deviceScore == Min(8000, (metrics.deviceMemory * 125) \div 256)
        gpuScore == 80 * (CASE metrics.gpuTier = "low" -> 25
                            [] metrics.gpuTier = "medium" -> 60
                            [] metrics.gpuTier = "high" -> 90)
        pixels == metrics.screenResolution.width * metrics.screenResolution.height
        displayScore == Min(8000, (pixels * 5) \div 1296)
        score == 6 * networkScore + 5 * deviceScore + 6 * gpuScore + 3 * displayScore
    IN  (Min(160000, Max(0, score)) + 800) \div 1600

\* getRecommendedQuality(score)
getRecommendedQuality(score) ==
    IF score >= 80 THEN "ultra"
    ELSE IF score >= 60 THEN "high"
    ELSE IF score >= 40 THEN "medium"
    ELSE "low"

\* The five sub-probes. detectDeviceCapabilities and detectDisplayCapabilities
\* return Promise.resolve(...): settled from the start. The other three are async
\* functions over browser APIs: each settles later, fulfilled or rejected.
Probes == {"network", "device", "gpu", "display", "battery"}
AsyncProbes == {"network", "gpu", "battery"}

ProbesStarted == [p \in Probes |-> IF p \in AsyncProbes THEN "pending" ELSE "fulfilled"]

\* The join as Promise.all would make it: over as soon as one sub-probe rejects.
JoinReady_failFast(settled) ==
    \/ \A p \in Probes : settled[p] = "fulfilled"
    \/ \E p \in Probes : settled[p] = "rejected"

\* await Promise.allSettled([...]): resumes once no sub-probe is pending
JoinReady(settled) == \A p \in Probes : settled[p] # "pending"

\* The metrics object literal of detectPerformance, then overallScore and
\* recommendedQuality.
AssembleMetrics(e, settled) ==
    LET ok(p) == settled[p] = "fulfilled"
        networkInfo == detectNetworkPerformance(e)
        deviceInfo == detectDeviceCapabilities(e)
        gpuInfo == detectGPUCapabilities(e)
        displayInfo == detectDisplayCapabilities(e)
        batteryInfo == detectBatteryInfo(e)
        metrics ==
            [networkSpeed |-> IF ok("network") THEN networkInfo.speed ELSE 0,
             effectiveType |-> IF ok("network") THEN networkInfo.effectiveType ELSE "4g",
             downlink |-> IF ok("network") THEN networkInfo.downlink ELSE 10000,
             rtt |-> IF ok("network") THEN networkInfo.rtt ELSE 50,
             saveData |-> IF ok("network") THEN networkInfo.saveData ELSE FALSE,
             deviceMemory |-> IF ok("device") THEN deviceInfo.memory ELSE 4096,
             hardwareConcurrency |-> IF ok("device") THEN deviceInfo.cores ELSE 4,
             gpuTier |-> IF ok("gpu") THEN gpuInfo.tier ELSE "medium",
             webglSupport |-> IF ok("gpu") THEN gpuInfo.webglSupport ELSE FALSE,
             webglVersion |-> IF ok("gpu") THEN gpuInfo.webglVersion ELSE 0,
             webgpuSupport |-> IF ok("gpu") THEN gpuInfo.webgpuSupport ELSE FALSE,
             maxTextureSize |-> IF ok("gpu") THEN gpuInfo.maxTextureSize ELSE 2048,
             maxViewportDimensions |->
                 IF ok("gpu") THEN gpuInfo.maxViewportDimensions ELSE <<1920, 1080>>,
             shaderPrecision |-> IF ok("gpu") THEN gpuInfo.shaderPrecision ELSE "medium",
             screenResolution |->
                 IF ok("display") THEN displayInfo.resolution
                 ELSE [width |-> 1920, height |-> 1080],
             pixelRatio |-> IF ok("display") THEN displayInfo.pixelRatio ELSE 100,
             colorDepth |-> IF ok("display") THEN displayInfo.colorDepth ELSE 24,
             batteryLevel |-> IF ok("battery") THEN batteryInfo.level ELSE Undefined,
             isCharging |->
                 IF ok("battery")
                 THEN (IF batteryInfo.charging THEN "true" ELSE "false")
                 ELSE "undefined",
             overallScore |-> 0,
             recommendedQuality |-> "medium"]
        overallScore == calculateOverallScore(metrics)
    IN  [metrics EXCEPT !.overallScore = overallScore,
                        !.recommendedQuality = getRecommendedQuality(overallScore)]

Null == [null |-> TRUE]

\* getFromCache with the comparison off by one: an entry of exactly CACHE_DURATION
\* still counts as valid.
getFromCache_inclusive(c, t) ==
    IF c # Null /\ t - c.timestamp <= CACHE_DURATION THEN c.data ELSE Null

\* getFromCache(key)
getFromCache(c, t) ==
    IF c # Null /\ t - c.timestamp < CACHE_DURATION THEN c.data ELSE Null

\* setCache as if it ran before the two derived fields were filled in
setCache_beforeScoring(data, t) ==
    [data |-> [data EXCEPT !.overallScore = 0, !.recommendedQuality = "medium"],
     timestamp |-> t]

\* setCache(key, data)
setCache(data, t) == [data |-> data, timestamp |-> t]

\* The callers of performanceDetector.detectPerformance() in SmartModelSelector:
\* the auto-detect effect on mount and the re-detect button.
Callers == {"mount", "redetect"}

IdleCall ==
    [pc |-> "idle", settled |-> ProbesStarted, probed |-> FALSE, raced |-> FALSE,
     result |-> Null]

\* no speed test running: not called yet, nothing fetched
SpeedTestIdle == [pc |-> "idle", i |-> 1, started |-> <<>>, result |-> Null]

DetInit ==
    /\ now = 0
    /\ cache = Null
    /\ calls = [c \in Callers |-> IdleCall]
    /\ env \in Environments
    /\ speedTestRun = SpeedTestIdle

\* detectPerformance(), up to the await: a cache hit returns at once, a miss starts
\* the five sub-probes.  raced records that another call was probing meanwhile.
detectPerformanceStart(c) ==
    /\ calls[c].pc # "probing"
    /\ LET cached == getFromCache(cache, now)
           others == {d \in Callers \ {c} : calls[d].pc = "probing"}
       IN  calls' =
               IF cached # Null
               THEN [calls EXCEPT ![c] =
                        [pc |-> "done", settled |-> ProbesStarted, probed |-> FALSE,
                         raced |-> FALSE, result |-> cached]]
               ELSE [d \in Callers |->
                        IF d = c
                        THEN [pc |-> "probing", settled |-> ProbesStarted,
                              probed |-> TRUE, raced |-> others # {}, result |-> Null]
                        ELSE IF d \in others THEN [calls[d] EXCEPT !.raced = TRUE]
                        ELSE calls[d]]
    /\ UNCHANGED <<now, cache, env, speedTestRun, loadVars, recVars, selVars>>

\* One of the async sub-probes of a call settles.
SubProbeSettles(c, p, outcome) ==
    /\ calls[c].pc = "probing"
    /\ calls[c].settled[p] = "pending"
    /\ calls' = [calls EXCEPT ![c].settled[p] = outcome]
    /\ UNCHANGED <<now, cache, env, speedTestRun, loadVars, recVars, selVars>>

\* detectPerformance() after the await: assemble, score, setCache, return.
detectPerformanceFinish(c) ==
    /\ calls[c].pc = "probing"
    /\ JoinReady(calls[c].settled)
    /\ LET metrics == AssembleMetrics(env, calls[c].settled)
       IN  /\ cache' = setCache(metrics, now)
           /\ calls' = [calls EXCEPT ![c].pc = "done", ![c].result = metrics]
    /\ UNCHANGED <<now, env, speedTestRun, loadVars, recVars, selVars>>

\* clearCache()
clearCache ==
    /\ cache # Null
    /\ cache' = Null
    /\ UNCHANGED <<now, calls, env, speedTestRun, loadVars, recVars, selVars>>

\* A minute passes.
Tick ==
    /\ now < MaxTime
    /\ now' = now + 1
    /\ UNCHANGED <<cache, calls, env, speedTestRun, loadVars, recVars, selVars>>

DetNext ==
    \/ \E c \in Callers : detectPerformanceStart(c)
    \/ \E c \in Callers, p \in AsyncProbes, outcome \in {"fulfilled", "rejected"} :
           SubProbeSettles(c, p, outcome)
    \/ \E c \in Callers : detectPerformanceFinish(c)
    \/ clearCache
    \/ Tick

\* ---- performNetworkSpeedTest(), one step at a time

\* what a candidate fetch can come to: the promise rejects, the response is not
\* ok, reading the body fails, or a body of some size arrives after some time
\* (25 Mbps, 1 Mbps, 0.5 Mbps, 0.00005 Mbps)
FetchOutcomes ==
    {[kind |-> "reject", bytes |-> 0, ms |-> 0],
     [kind |-> "notok", bytes |-> 0, ms |-> 0],
     [kind |-> "blob", bytes |-> 0, ms |-> 0],
     [kind |-> "ok", bytes |-> 25000, ms |-> 8],
     [kind |-> "ok", bytes |-> 500, ms |-> 4],
     [kind |-> "ok", bytes |-> 500, ms |-> 8],
     [kind |-> "ok", bytes |-> 500, ms |-> 80000]}

\* the environments with every combination of outcomes of the two remote fetches
FetchEnvironments ==
    {[e EXCEPT !.fetches = f] : e \in Environments, f \in [1..2 -> FetchOutcomes]}

SpeedTestInit ==
    /\ now = 0
    /\ cache = Null
    /\ calls = [c \in Callers |-> IdleCall]
    /\ env \in FetchEnvironments
    /\ speedTestRun = SpeedTestIdle

\* The speed test after the awaited fetch has settled, with a success that does
\* not return: the result is kept and the loop goes on.
afterFetch_keepGoing(st, e) ==
    LET f == e.fetches[st.i]
    IN  IF f.kind = "ok"
        THEN [st EXCEPT !.pc = "loop", !.i = st.i + 1,
                        !.result = [speed |-> Max(100, (f.bytes * 8) \div f.ms),
                                    latency |-> e.latency, jitter |-> 0]]
        ELSE [st EXCEPT !.pc = "loop", !.i = st.i + 1]

\* The speed test after the awaited fetch has settled, without Math.max(0.1, speed)
afterFetch_noFloor(st, e) ==
    LET f == e.fetches[st.i]
    IN  IF f.kind = "ok"
        THEN [st EXCEPT !.pc = "done",
                        !.result = [speed |-> (f.bytes * 8) \div f.ms,
                                    latency |-> e.latency, jitter |-> 0]]
        ELSE [st EXCEPT !.pc = "loop", !.i = st.i + 1]

\* The speed test after the awaited fetch has settled: a body that arrived gives
\* the result (return), everything else is caught (continue).
afterFetch(st, e) ==
    LET f == e.fetches[st.i]
    IN  IF f.kind = "ok"
        THEN [st EXCEPT !.pc = "done",
                        !.result = [speed |-> Max(100, (f.bytes * 8) \div f.ms),
                                    latency |-> e.latency, jitter |-> 0]]
        ELSE [st EXCEPT !.pc = "loop", !.i = st.i + 1]

\* performNetworkSpeedTest() is called
speedTestCalled ==
    /\ speedTestRun.pc = "idle"
    /\ speedTestRun' = [speedTestRun EXCEPT !.pc = "loop"]
    /\ UNCHANGED <<now, cache, calls, env, loadVars, recVars, selVars>>

\* One turn of for (const testUrl of testUrls) up to its await: the end of the
\* list returns the fallback values, a data: URL is skipped, any other URL is
\* fetched.
speedTestTurn ==
    /\ speedTestRun.pc = "loop"
    /\ speedTestRun' =
           IF speedTestRun.i > Len(testUrls)
           THEN [speedTestRun EXCEPT
                    !.pc = "done",
                    !.result = IF speedTestRun.result = Null
                               THEN [speed |-> 10000, latency |-> 50, jitter |-> 5]
                               ELSE speedTestRun.result]
           ELSE IF testUrls[speedTestRun.i] = "data"
           THEN [speedTestRun EXCEPT !.i = speedTestRun.i + 1]
           ELSE [speedTestRun EXCEPT !.pc = "fetching",
                                  !.started = Append(speedTestRun.started, speedTestRun.i)]
    /\ UNCHANGED <<now, cache, calls, env, loadVars, recVars, selVars>>

\* The fetch in flight settles and the turn runs to its return or continue.
fetchSettles ==
    /\ speedTestRun.pc = "fetching"
    /\ speedTestRun' = afterFetch(speedTestRun, env)
    /\ UNCHANGED <<now, cache, calls, env, loadVars, recVars, selVars>>

SpeedTestNext ==
    \/ speedTestCalled
    \/ speedTestTurn
    \/ fetchSettles

(***************************************************************************)
(* Part III.  Scoring Engine                                               *)
(*                                                                         *)
(* Units: as in Part II; fileSize in fifths of a KiB (5120 to the MiB), so *)
(* that 67.8 * 1024 * 1024 bytes is a whole number; weights in hundredths; *)
(* load times in tenths of a second.  Quotients are compared by cross      *)
(* multiplication, in exact arithmetic.                                    *)
(***************************************************************************)

\* ModelConfiguration.quality
Qualities == {"low", "medium", "high", "ultra"}

\* fileSize / (1024 * 1024) = fileSize / MiB
MiB == 5120

\* availableModels[0] of KampferModel
ZeonStandard ==
    [id |-> "zeon-standard", fileSize |-> 4285, quality |-> "medium",
     minRequirements |-> [networkSpeed |-> 2000, deviceMemory |-> 4096,
                          gpuTier |-> "medium"]]

\* availableModels[1] of KampferModel
KampferHd ==
    [id |-> "kampfer-hd", fileSize |-> 347136, quality |-> "high",
     minRequirements |-> [networkSpeed |-> 10000, deviceMemory |-> 8192,
                          gpuTier |-> "high"]]

\* the model of the usage guide that declares no minRequirements
TestModel ==
    [id |-> "test-model", fileSize |-> 51200, quality |-> "medium",
     minRequirements |-> Null]

\* a second descriptor of the same size and quality, without minRequirements
TestModelCopy ==
    [id |-> "test-model-2", fileSize |-> 51200, quality |-> "medium",
     minRequirements |-> Null]

\* a descriptor whose only requirement is WebGL 2
KampferUltra ==
    [id |-> "kampfer-ultra", fileSize |-> 256000, quality |-> "ultra",
     minRequirements |-> [webglVersion |-> 2]]

ModelPool == {ZeonStandard, KampferHd, TestModel, TestModelCopy, KampferUltra}

\* const tierOrder = { 'low': 1, 'medium': 2, 'high': 3 }
tierOrder == [low |-> 1, medium |-> 2, high |-> 3]

\* The filter with <= in place of <: a snapshot that equals a requirement fails it.
isEligible_strict(model, metrics) ==
    LET requirements == model.minRequirements
        has(f) == f \in DOMAIN requirements
    IN  \/ requirements = Null
        \/ /\ has("networkSpeed") => metrics.networkSpeed > requirements.networkSpeed
           /\ has("deviceMemory") => metrics.deviceMemory > requirements.deviceMemory
           /\ has("gpuTier") =>
                  tierOrder[metrics.gpuTier] > tierOrder[requirements.gpuTier]
           /\ has("webglVersion") => metrics.webglVersion > requirements.webglVersion

\* The filter without its first line: a descriptor that declares no
\* minRequirements is dropped.
isEligible_undeclared(model, metrics) ==
    LET requirements == model.minRequirements
        has(f) == f \in DOMAIN requirements
    IN  /\ requirements # Null
        /\ has("networkSpeed") => metrics.networkSpeed >= requirements.networkSpeed
        /\ has("deviceMemory") => metrics.deviceMemory >= requirements.deviceMemory
        /\ has("gpuTier") =>
               tierOrder[metrics.gpuTier] >= tierOrder[requirements.gpuTier]
        /\ has("webglVersion") => metrics.webglVersion >= requirements.webglVersion

\* The callback of models.filter(...) in filterEligibleModels. A requirement that
\* is declared as 0 is falsy and skips its test.
isEligible(model, metrics) ==
    LET requirements == model.minRequirements
        has(f) == f \in DOMAIN requirements
    IN  IF requirements = Null THEN TRUE
        ELSE IF /\ has("networkSpeed") /\ requirements.networkSpeed # 0
                /\ metrics.networkSpeed < requirements.networkSpeed THEN FALSE
        ELSE IF /\ has("deviceMemory") /\ requirements.deviceMemory # 0
                /\ metrics.deviceMemory < requirements.deviceMemory THEN FALSE
        ELSE IF /\ has("gpuTier")
                /\ tierOrder[metrics.gpuTier] < tierOrder[requirements.gpuTier] THEN FALSE
        ELSE IF /\ has("webglVersion") /\ requirements.webglVersion # 0
                /\ metrics.webglVersion < requirements.webglVersion THEN FALSE
        ELSE TRUE

\* filterEligibleModels(models, metrics)
filterEligibleModels(models, metrics) ==
    SelectSeq(models, LAMBDA model : isEligible(model, metrics))

\* Math.round(n / d) for d > 0
Round(n, d) == (2 * n + d) \div (2 * d)

\* estimateMemoryUsage(model, metrics), in MB
estimateMemoryUsage(model, metrics) ==
    LET qualityMultipliers == [low |-> 3, medium |-> 4, high |-> 6, ultra |-> 8]
    IN  Round(model.fileSize * qualityMultipliers[model.quality], 2 * MiB)

\* calculateNetworkScore(model, metrics): estimatedTime = fileSizeMB * 8 / Mbps.
\* A networkSpeed of 0 makes the time Infinity (or NaN) and gives the last band.
calculateNetworkScore(model, metrics) ==
    LET bits == model.fileSize * 25
        perSecond == metrics.networkSpeed * 16
    IN  IF bits < 2 * perSecond THEN 90
        ELSE IF bits < 5 * perSecond THEN 75
        ELSE IF bits < 10 * perSecond THEN 60
        ELSE IF bits < 20 * perSecond THEN 40
        ELSE 20

\* calculateMemoryScore(model, metrics): 70% of the device memory is available
calculateMemoryScore(model, metrics) ==
    LET used == estimateMemoryUsage(model, metrics) * 100
        available == metrics.deviceMemory * 7
    IN  IF used < available THEN 90
        ELSE IF used < 2 * available THEN 75
        ELSE IF used < 4 * available THEN 60
        ELSE IF used < 6 * available THEN 40
        ELSE 20

\* calculateGPUScore(model, metrics)
calculateGPUScore(model, metrics) ==
    LET qualityScores ==
            [low    |-> [low |-> 90, medium |-> 95, high |-> 98],
             medium |-> [low |-> 60, medium |-> 80, high |-> 95],
             high   |-> [low |-> 30, medium |-> 60, high |-> 85],
             ultra  |-> [low |-> 20, medium |-> 40, high |-> 70]]
    IN  qualityScores[model.quality][metrics.gpuTier]

\* calculateBatteryScore with a truthiness test of the level (!metrics.batteryLevel)
\* instead of the comparison with undefined: an empty battery counts as unknown.
calculateBatteryScore_falsyLevel(model, metrics) ==
    LET qualityImpact == [low |-> 1, medium |-> 3, high |-> 6, ultra |-> 10]
        impact == qualityImpact[model.quality]
        batteryLevel == metrics.batteryLevel
    IN  IF batteryLevel = Undefined \/ batteryLevel = 0 \/ metrics.isCharging = "true"
        THEN 80
        ELSE IF batteryLevel < 20 /\ impact > 5 THEN 20
        ELSE IF batteryLevel < 50 /\ impact > 7 THEN 40
        ELSE IF batteryLevel < 30 THEN 60
        ELSE 85

\* calculateBatteryScore(model, metrics); qualityImpact in tenths
calculateBatteryScore(model, metrics) ==
    LET qualityImpact == [low |-> 1, medium |-> 3, high |-> 6, ultra |-> 10]
        impact == qualityImpact[model.quality]
        batteryLevel == metrics.batteryLevel
    IN  IF batteryLevel = Undefined \/ metrics.isCharging = "true" THEN 80
        ELSE IF batteryLevel < 20 /\ impact > 5 THEN 20
        ELSE IF batteryLevel < 50 /\ impact > 7 THEN 40
        ELSE IF batteryLevel < 30 THEN 60
        ELSE 85

\* calculateDataSaverScore(model, metrics, userPreferences)
calculateDataSaverScore(model, metrics, userPreferences) ==
    LET size == model.fileSize
    IN  IF userPreferences.dataSaverMode \/ metrics.saveData
        THEN IF size < MiB THEN 90
             ELSE IF size < 5 * MiB THEN 70
             ELSE IF size < 20 * MiB THEN 40
             ELSE 20
        ELSE IF size < 10 * MiB THEN 80
             ELSE IF size < 50 * MiB THEN 70
             ELSE IF size < 100 * MiB THEN 60
             ELSE 50

\* calculatePreferenceScore with the two direction bonuses in separate ifs: both
\* are added when both flags are set.
calculatePreferenceScore_bothBonuses(model, userPreferences) ==
    LET qualityBonus == [low |-> 10, medium |-> 20, high |-> 30, ultra |-> 40]
        performanceBonus == [ultra |-> 10, high |-> 20, medium |-> 30, low |-> 40]
        preferred == IF userPreferences.preferredQuality = model.quality THEN 30 ELSE 0
        priority ==
            (IF userPreferences.prioritizeQuality THEN qualityBonus[model.quality] ELSE 0)
            + (IF userPreferences.prioritizePerformance
               THEN performanceBonus[model.quality] ELSE 0)
        score == IF model.id \in userPreferences.excludedModels
                 THEN 0
                 ELSE 50 + preferred + priority
    IN  Max(0, Min(100, score))

\* calculatePreferenceScore(model, userPreferences)
calculatePreferenceScore(model, userPreferences) ==
    LET qualityBonus == [low |-> 10, medium |-> 20, high |-> 30, ultra |-> 40]
        performanceBonus == [ultra |-> 10, high |-> 20, medium |-> 30, low |-> 40]
        preferred == IF userPreferences.preferredQuality = model.quality THEN 30 ELSE 0
        priority ==
            IF userPreferences.prioritizeQuality THEN qualityBonus[model.quality]
            ELSE IF userPreferences.prioritizePerformance
                 THEN performanceBonus[model.quality]
                 ELSE 0
        score == IF model.id \in userPreferences.excludedModels
                 THEN 0
                 ELSE 50 + preferred + priority
    IN  Max(0, Min(100, score))

\* private defaultWeights
DefaultWeights ==
    [networkSpeed |-> 25, deviceMemory |-> 20, gpuPerformance |-> 25,
     batteryLevel |-> 10, dataSaver |-> 10, userPreference |-> 10]

\* customWeights omitted
NoWeights == [k \in {} |-> 0]

\* The merge with the caller's object taken whole: a factor the caller leaves
\* out has no weight.
mergeWeights_replace(defaults, customWeights) ==
    [k \in DOMAIN defaults |->
        IF k \in DOMAIN customWeights THEN customWeights[k] ELSE 0]

\* const weights = { ...this.defaultWeights, ...customWeights }
mergeWeights(defaults, customWeights) ==
    [k \in DOMAIN defaults |->
        IF k \in DOMAIN customWeights THEN customWeights[k] ELSE defaults[k]]

\* calculateModelScore(model, metrics, weights, userPreferences)
calculateModelScore(model, metrics, weights, userPreferences) ==
    LET networkScore == calculateNetworkScore(model, metrics)
        memoryScore == calculateMemoryScore(model, metrics)
        gpuScore == calculateGPUScore(model, metrics)
        batteryScore == calculateBatteryScore(model, metrics)
        dataSaverScore == calculateDataSaverScore(model, metrics, userPreferences)
        preferenceScore == calculatePreferenceScore(model, userPreferences)
        score == 5000 + (networkScore - 50) * weights.networkSpeed
                      + (memoryScore - 50) * weights.deviceMemory
                      + (gpuScore - 50) * weights.gpuPerformance
                      + (batteryScore - 50) * weights.batteryLevel
                      + (dataSaverScore - 50) * weights.dataSaver
                      + (preferenceScore - 50) * weights.userPreference
    IN  Max(0, Min(100, Round(score, 100)))

\* a load time over a networkSpeed of 0
Infinity == 999999

\* estimateLoadTime(model, metrics), in tenths of a second
estimateLoadTime(model, metrics) ==
    LET processingTimes == [low |-> 1, medium |-> 2, high |-> 4, ultra |-> 8]
        gpuMultiplier == [low |-> 4, medium |-> 2, high |-> 1]
        processing == processingTimes[model.quality] * gpuMultiplier[metrics.gpuTier]
    IN  IF metrics.networkSpeed = 0 THEN Infinity
        ELSE Round(125 * model.fileSize + 20 * processing * metrics.networkSpeed,
                   8 * metrics.networkSpeed)

\* assessPerformanceImpact(model, metrics)
assessPerformanceImpact(model, metrics) ==
    LET used == estimateMemoryUsage(model, metrics) * 100
        available == metrics.deviceMemory * 7
    IN  IF used > 5 * available THEN "high"
        ELSE IF used > 2 * available THEN "medium"
        ELSE "low"

\* array.push under a condition
PushIf(cond, text) == IF cond THEN <<text>> ELSE <<>>

\* metrics.batteryLevel && metrics.batteryLevel < limit && !metrics.isCharging
batteryBelow(metrics, limit) ==
    /\ metrics.batteryLevel # Undefined
    /\ metrics.batteryLevel # 0
    /\ metrics.batteryLevel < limit
    /\ metrics.isCharging # "true"

\* generateReasoning(model, metrics, userPreferences); ${loadTime} is the
\* estimateLoadTime of the same model
generateReasoning(model, metrics, userPreferences) ==
    LET loadTime == estimateLoadTime(model, metrics)
        memoryUsage == estimateMemoryUsage(model, metrics)
        q == model.quality
        g == metrics.gpuTier
    IN  (IF loadTime < 30 THEN <<"Fast download expected (${loadTime}s)">>
         ELSE PushIf(loadTime > 100,
                     "Longer load time due to large file size (${loadTime}s)"))
        \o (IF q = "ultra" /\ g = "high"
            THEN <<"Your high-end GPU can handle ultra quality models">>
            ELSE IF q = "high" /\ g = "medium"
            THEN <<"Good balance of quality and performance for your device">>
            ELSE PushIf(q = "low" /\ g = "low", "Optimized for your device capabilities"))
        \o (IF memoryUsage < 100 THEN <<"Low memory footprint">>
            ELSE PushIf(memoryUsage > 500,
                        "Higher memory usage but provides better visual quality"))
        \o (IF metrics.effectiveType = "4g" /\ q # "low"
            THEN <<"4G connection supports higher quality models">>
            ELSE PushIf(metrics.effectiveType = "2g" /\ q = "low",
                        "Optimized for slower connections"))
        \o PushIf(batteryBelow(metrics, 30), "Selected to conserve battery life")

\* generateWarnings(model, metrics)
generateWarnings(model, metrics) ==
    PushIf(estimateLoadTime(model, metrics) > 150, "Long load time expected (${loadTime}s)")
    \o PushIf(estimateMemoryUsage(model, metrics) > 500,
              "High memory usage may affect performance")
    \o PushIf(batteryBelow(metrics, 20), "May drain battery quickly")
    \o PushIf(model.quality = "ultra" /\ metrics.gpuTier # "high",
              "May experience reduced performance on your device")

\* generateBenefits(model, metrics)
generateBenefits(model, metrics) ==
    (CASE model.quality = "ultra" ->
              <<"Maximum visual quality and detail", "Best possible lighting and textures">>
       [] model.quality = "high" ->
              <<"High quality visuals with good performance", "Detailed textures and lighting">>
       [] model.quality = "medium" ->
              <<"Balanced quality and performance", "Good visual quality with fast loading">>
       [] OTHER ->
              <<"Fast loading and smooth performance", "Optimized for all devices">>)
    \o PushIf(estimateLoadTime(model, metrics) < 30, "Quick load time")
    \o PushIf(assessPerformanceImpact(model, metrics) = "low", "Minimal performance impact")

\* calculateRecommendation without the sort: the scored descriptors stay in
\* catalog order.
sortByScore_unsorted(scored) == scored

\* scoredModels.sort((a, b) => b.score - a.score): highest score first, equal
\* scores in the order of the input (Array.prototype.sort is stable)
RECURSIVE sortByScore(_)
sortByScore(scored) ==
    IF scored = <<>> THEN <<>>
    ELSE LET n == Len(scored)
             front == sortByScore(SubSeq(scored, 1, n - 1))
             last == scored[n]
             k == Cardinality({i \in 1..(n - 1) : front[i].score >= last.score})
         IN  SubSeq(front, 1, k) \o <<last>> \o SubSeq(front, k + 1, n - 1)

\* const scoredModels = eligibleModels.map(...), then sorted in place
scoreModels(defaults, metrics, eligible, userPreferences, customWeights) ==
    LET weights == mergeWeights(defaults, customWeights)
    IN  sortByScore([i \in 1..Len(eligible) |->
            [model |-> eligible[i],
             score |-> calculateModelScore(eligible[i], metrics, weights,
                                           userPreferences),
             reasoning |-> generateReasoning(eligible[i], metrics, userPreferences)]])

\* throw new Error(...) of calculateRecommendation
NoEligibleModels ==
    [kind |-> "error",
     message |-> "No models meet the minimum requirements for this device"]

\* calculateRecommendation from the test of eligibleModels.length on: what it
\* returns or throws, given the default weights of the engine at the time of the
\* call. confidence is in hundredths.
RecommendFrom(defaults, metrics, eligible, userPreferences, customWeights) ==
    LET ranked == scoreModels(defaults, metrics, eligible, userPreferences, customWeights)
        bestMatch == ranked[1]
        alternatives == [i \in 1..Min(3, Len(ranked) - 1) |-> ranked[i + 1].model]
    IN  IF Len(eligible) = 0 THEN NoEligibleModels
        ELSE [kind |-> "recommendation",
              modelId |-> bestMatch.model.id,
              confidence |-> Min(bestMatch.score, 100),
              reasoning |-> bestMatch.reasoning,
              alternative |-> alternatives,
              estimatedLoadTime |-> estimateLoadTime(bestMatch.model, metrics),
              estimatedMemoryUsage |-> estimateMemoryUsage(bestMatch.model, metrics),
              performanceImpact |-> assessPerformanceImpact(bestMatch.model, metrics),
              warnings |-> generateWarnings(bestMatch.model, metrics),
              benefits |-> generateBenefits(bestMatch.model, metrics)]

\* calculateRecommendation without the eligibility filter: every descriptor of
\* the catalog is scored.
Recommend_unfiltered(defaults, metrics, models, userPreferences, customWeights) ==
    RecommendFrom(defaults, metrics, models, userPreferences, customWeights)

\* calculateRecommendation(metrics, models, userPreferences, customWeights)
Recommend(defaults, metrics, models, userPreferences, customWeights) ==
    RecommendFrom(defaults, metrics, filterEligibleModels(models, metrics),
                  userPreferences, customWeights)

\* The engine after Object.assign(this.defaultWeights, customWeights) in place of
\* the spread.
defaultWeightsAfter_assign(defaults, customWeights) ==
    mergeWeights(defaults, customWeights)

\* this.defaultWeights after a call: the spread copies, nothing is assigned
defaultWeightsAfter(defaults, customWeights) == defaults

\* ---- the arguments of the calls

AllFulfilled == [p \in Probes |-> "fulfilled"]
AsyncRejected == [p \in Probes |-> IF p \in AsyncProbes THEN "rejected" ELSE "fulfilled"]

\* the snapshot of the worked example: 1 Mbps, 2 GB, gpuTier low
ExampleSnapshot == [AssembleMetrics(Phone, AllFulfilled) EXCEPT !.gpuTier = "low"]

\* Snapshots as detectPerformance returns them.
Snapshots ==
    {AssembleMetrics(Desktop, AllFulfilled), AssembleMetrics(Desktop, AsyncRejected),
     ExampleSnapshot}

\* userPreferences = {}
NoPreferences ==
    [prioritizeQuality |-> FALSE, prioritizePerformance |-> FALSE,
     dataSaverMode |-> FALSE, preferredQuality |-> "none", excludedModels |-> {}]

Preferences ==
    {NoPreferences,
     [NoPreferences EXCEPT !.prioritizePerformance = TRUE,
                           !.excludedModels = {"test-model"}]}

CustomWeights == {NoWeights, [networkSpeed |-> 50, userPreference |-> 100]}

\* The longest catalog of a call.
MaxCatalog == 2

\* the sequences of at most n distinct descriptors of the pool
CatalogsUpTo(n) ==
    {models \in UNION {[1..k -> ModelPool] : k \in 0..n} :
        \A i, j \in 1..Len(models) : i # j => models[i] # models[j]}

Catalogs == CatalogsUpTo(MaxCatalog)

Inputs ==
    [metrics : Snapshots, models : Catalogs, userPreferences : Preferences,
     customWeights : CustomWeights]

\* The call that later calls with the same arguments are compared with: two
\* descriptors of equal score, default weights.
ReferenceInputs ==
    {[metrics |-> AssembleMetrics(Desktop, AllFulfilled),
      models |-> <<TestModel, TestModelCopy>>,
      userPreferences |-> NoPreferences, customWeights |-> NoWeights]}

NoCall == [called |-> FALSE]

RecInit ==
    /\ defaultWeights = DefaultWeights
    /\ recInput = NoCall
    /\ eligibleModels = <<>>
    /\ scoredModels = <<>>
    /\ recResult = NoCall
    /\ refInput = NoCall
    /\ refResult = NoCall
    /\ interleaved = FALSE
    /\ valInput = NoCall
    /\ valErrors = NoCall

\* The caller's arguments after the call if the ranking were done on the
\* catalog array itself: filtered and sorted in place.
argumentsAfter_sortInPlace(input, ranked) ==
    [input EXCEPT !.models = [k \in 1..Len(ranked) |-> ranked[k].model]]

\* The caller's arguments after the call: models.filter, eligibleModels.map and
\* scoredModels.slice return new arrays, sort acts on the mapped array, the
\* spread builds a new weights object, and nothing assigns to a field of metrics,
\* of a descriptor or of userPreferences.
argumentsAfter(input, ranked) == input

\* modelRecommendationEngine.calculateRecommendation(metrics, models,
\* userPreferences, customWeights) on the shared engine instance
calculateRecommendation(metrics, models, userPreferences, customWeights) ==
    LET input == [metrics |-> metrics, models |-> models,
                  userPreferences |-> userPreferences, customWeights |-> customWeights]
        result == Recommend(defaultWeights, metrics, models, userPreferences,
                            customWeights)
        first == refInput = NoCall /\ input \in ReferenceInputs
        ranked == scoreModels(defaultWeights, metrics,
                              filterEligibleModels(models, metrics),
                              userPreferences, customWeights)
    IN  /\ recInput' = argumentsAfter(input, ranked)
        /\ eligibleModels' = filterEligibleModels(models, metrics)
        /\ scoredModels' = scoreModels(defaultWeights, metrics,
                                       filterEligibleModels(models, metrics),
                                       userPreferences, customWeights)
        /\ recResult' = result
        /\ defaultWeights' = defaultWeightsAfter(defaultWeights, customWeights)
        /\ refInput' = IF first THEN input ELSE refInput
        /\ refResult' = IF first THEN result ELSE refResult
        /\ interleaved' = (interleaved \/ (refInput # NoCall /\ input # refInput))
        /\ UNCHANGED <<valInput, valErrors, loadVars, detVars, selVars>>

RecNext ==
    \E input \in Inputs :
        calculateRecommendation(input.metrics, input.models, input.userPreferences,
                                input.customWeights)

\* ---- one call on a fresh engine, its arguments fixed beforehand

\* The longest catalog of a single call.
MaxRanked == 5

\* catalogs long enough to fill the three alternatives and leave one over
RankingInputs ==
    [metrics : Snapshots, models : CatalogsUpTo(MaxRanked),
     userPreferences : Preferences, customWeights : CustomWeights]

\* weights as a caller may pass them: none, some factors, all factors, a weight
\* of 0, weights above 1 and below 0 (in hundredths)
CallerWeights ==
    {NoWeights,
     [networkSpeed |-> 50, userPreference |-> 100],
     [gpuPerformance |-> 0],
     [batteryLevel |-> -200],
     [networkSpeed |-> 300, deviceMemory |-> 300, gpuPerformance |-> 300,
      batteryLevel |-> 300, dataSaver |-> 300, userPreference |-> 300]}

WeightInputs ==
    [metrics : Snapshots, models : Catalogs, userPreferences : Preferences,
     customWeights : CallerWeights]

\* the usage guide's descriptor in each of the four qualities
QualityLadder == {[TestModel EXCEPT !.id = q, !.quality = q] : q \in Qualities}

\* preferences as a caller may combine them: a preferred quality or none, each
\* of the two direction flags, the descriptor "high" excluded or nothing excluded
PreferenceSets ==
    [prioritizeQuality : BOOLEAN, prioritizePerformance : BOOLEAN,
     dataSaverMode : {FALSE}, preferredQuality : Qualities \cup {"none"},
     excludedModels : {{}, {"high"}}]

\* weights that leave the user-preference factor alone in the final score
PreferenceOnly ==
    [networkSpeed |-> 0, deviceMemory |-> 0, gpuPerformance |-> 0,
     batteryLevel |-> 0, dataSaver |-> 0, userPreference |-> 100]

PreferenceInputs ==
    [metrics : {AssembleMetrics(Desktop, AllFulfilled)},
     models : {<<d>> : d \in QualityLadder},
     userPreferences : PreferenceSets,
     customWeights : {PreferenceOnly, NoWeights}]

\* throughputs a timed download can come to, in kbit/s: the 0.1 Mbps floor,
\* 1, 16.5, 20, 25 and 100 Mbps
MeasuredSpeeds == {100, 1000, 16500, 20000, 25000, 100000}

\* the desktop's snapshot with each of these throughputs
SpeedSnapshots ==
    {[AssembleMetrics(Desktop, AllFulfilled) EXCEPT !.networkSpeed = speed,
                                                   !.downlink = speed] :
        speed \in MeasuredSpeeds}

\* weights that leave the network factor alone in the final score
NetworkOnly ==
    [networkSpeed |-> 100, deviceMemory |-> 0, gpuPerformance |-> 0,
     batteryLevel |-> 0, dataSaver |-> 0, userPreference |-> 0]

NetworkInputs ==
    [metrics : SpeedSnapshots,
     models : {<<d>> : d \in ModelPool},
     userPreferences : {NoPreferences},
     customWeights : {NetworkOnly}]

\* battery levels in percent, on both sides of 0.2, 0.3 and 0.5, empty and full
BatteryLevels == {0, 10, 19, 20, 29, 30, 49, 50, 100}

\* the desktop's snapshot with each power state PerformanceMetrics can carry:
\* none (both fields undefined), or a level with the charging flag
PowerSnapshots ==
    {[AssembleMetrics(Desktop, AllFulfilled) EXCEPT !.batteryLevel = Undefined,
                                                   !.isCharging = "undefined"]}
    \cup {[AssembleMetrics(Desktop, AllFulfilled) EXCEPT !.batteryLevel = level,
                                                        !.isCharging = charging] :
              level \in BatteryLevels, charging \in {"true", "false"}}

\* weights that leave the battery factor alone in the final score
BatteryOnly ==
    [networkSpeed |-> 0, deviceMemory |-> 0, gpuPerformance |-> 0,
     batteryLevel |-> 100, dataSaver |-> 0, userPreference |-> 0]

BatteryInputs ==
    [metrics : PowerSnapshots,
     models : {<<d>> : d \in QualityLadder},
     userPreferences : {NoPreferences},
     customWeights : {BatteryOnly, NoWeights}]

CallInputs ==
    RankingInputs \cup WeightInputs \cup PreferenceInputs \cup NetworkInputs
    \cup BatteryInputs

CallInit ==
    /\ defaultWeights = DefaultWeights
    /\ recInput \in CallInputs
    /\ eligibleModels = <<>>
    /\ scoredModels = <<>>
    /\ recResult = NoCall
    /\ refInput = NoCall
    /\ refResult = NoCall
    /\ interleaved = FALSE
    /\ valInput = NoCall
    /\ valErrors = NoCall

\* the caller invokes calculateRecommendation with the arguments it holds
CallOnce ==
    /\ recResult = NoCall
    /\ calculateRecommendation(recInput.metrics, recInput.models,
                               recInput.userPreferences, recInput.customWeights)

CallNext == CallOnce

\* ---- validateModelConfiguration

\* The longest string of a descriptor handed to the validation.
MaxText == 2

\* strings: sequences of characters, a blank or a letter
Texts == UNION {[1..k -> {" ", "a"}] : k \in 0..MaxText}

\* a property that is missing (undefined)
Missing == [present |-> FALSE]
Given(value) == [present |-> TRUE, value |-> value]

\* String.prototype.trim()
RECURSIVE trim(_)
trim(text) ==
    IF text = <<>> THEN <<>>
    ELSE IF Head(text) = " " THEN trim(Tail(text))
    ELSE IF text[Len(text)] = " " THEN trim(SubSeq(text, 1, Len(text) - 1))
    ELSE text

\* !s || s.trim() === ''
blank(s) == ~s.present \/ s.value = <<>> \/ trim(s.value) = <<>>

\* validateModelConfiguration with s === '' in place of s.trim() === ''
validateModelConfiguration_untrimmed(model) ==
    LET empty(s) == ~s.present \/ s.value = <<>>
    IN  PushIf(empty(model.id), "Model ID is required")
        \o PushIf(empty(model.name), "Model name is required")
        \o PushIf(empty(model.url), "Model URL is required")
        \o PushIf(~model.fileSize.present \/ model.fileSize.value <= 0,
                  "File size must be greater than 0")
        \o PushIf(~model.quality.present \/ model.quality.value \notin Qualities,
                  "Quality must be one of: low, medium, high, ultra")

\* validateModelConfiguration(model)
validateModelConfiguration(model) ==
    PushIf(blank(model.id), "Model ID is required")
    \o PushIf(blank(model.name), "Model name is required")
    \o PushIf(blank(model.url), "Model URL is required")
    \o PushIf(~model.fileSize.present \/ model.fileSize.value = 0
                  \/ model.fileSize.value <= 0,
              "File size must be greater than 0")
    \o PushIf(~model.quality.present \/ model.quality.value \notin Qualities,
              "Quality must be one of: low, medium, high, ultra")

TextProperties == {Missing} \cup {Given(t) : t \in Texts}

\* descriptors as a caller may hand them in, complete or not
ValidationInputs ==
    [id : TextProperties, name : TextProperties, url : TextProperties,
     fileSize : {Missing, Given(-1), Given(0), Given(4285)},
     quality : {Missing} \cup {Given(q) : q \in Qualities \cup {"extreme"}}]

ValidateInit ==
    /\ defaultWeights = DefaultWeights
    /\ recInput = NoCall
    /\ eligibleModels = <<>>
    /\ scoredModels = <<>>
    /\ recResult = NoCall
    /\ refInput = NoCall
    /\ refResult = NoCall
    /\ interleaved = FALSE
    /\ valInput \in ValidationInputs
    /\ valErrors = NoCall

\* modelRecommendationEngine.validateModelConfiguration(model)
Validate ==
    /\ valErrors = NoCall
    /\ valErrors' = [called |-> TRUE, errors |-> validateModelConfiguration(valInput)]
    /\ UNCHANGED <<defaultWeights, recInput, eligibleModels, scoredModels, recResult,
                   refInput, refResult, interleaved, valInput, loadVars, detVars, selVars>>

ValidateNext == Validate

\* ---- getRecommendedQualityLevel

\* getRecommendedQualityLevel with the score thresholds of the detector's
\* getRecommendedQuality lowered by one band
getRecommendedQualityLevel_lowerBands(metrics) ==
    LET score == metrics.overallScore
    IN  CASE score >= 60 /\ metrics.networkSpeed > 20000 /\ metrics.gpuTier = "high" -> "ultra"
          [] OTHER ->
             CASE score >= 40 /\ metrics.networkSpeed > 10000 /\ metrics.gpuTier # "low" -> "high"
               [] OTHER ->
                  IF score >= 0 /\ metrics.networkSpeed > 2000 THEN "medium" ELSE "low"

\* getRecommendedQualityLevel(metrics)
getRecommendedQualityLevel(metrics) ==
    LET score == metrics.overallScore
    IN  CASE score >= 85 /\ metrics.networkSpeed > 20000 /\ metrics.gpuTier = "high" -> "ultra"
          [] OTHER ->
             CASE score >= 70 /\ metrics.networkSpeed > 10000 /\ metrics.gpuTier # "low" -> "high"
               [] OTHER ->
                  IF score >= 50 /\ metrics.networkSpeed > 2000 THEN "medium" ELSE "low"

\* throughputs around the three speed conditions (2, 10 and 20 Mbps)
LevelSpeeds == {100, 2000, 2001, 10000, 10001, 20000, 20001, 100000}

\* Snapshots handed to getRecommendedQualityLevel: any score, with the
\* recommendedQuality the detector derives from it, any of the throughputs and
\* any graphics tier.
LevelSnapshots ==
    {[AssembleMetrics(Desktop, AllFulfilled) EXCEPT
          !.overallScore = score,
          !.recommendedQuality = getRecommendedQuality(score),
          !.networkSpeed = speed,
          !.gpuTier = tier] :
        score \in 0..100, speed \in LevelSpeeds, tier \in {"low", "medium", "high"}}

QualityInit ==
    /\ defaultWeights = DefaultWeights
    /\ recInput \in LevelSnapshots
    /\ eligibleModels = <<>>
    /\ scoredModels = <<>>
    /\ recResult = NoCall
    /\ refInput = NoCall
    /\ refResult = NoCall
    /\ interleaved = FALSE
    /\ valInput = NoCall
    /\ valErrors = NoCall

\* modelRecommendationEngine.getRecommendedQualityLevel(metrics)
QualityLevel ==
    /\ recResult = NoCall
    /\ recResult' = [called |-> TRUE, quality |-> getRecommendedQualityLevel(recInput)]
    /\ UNCHANGED <<defaultWeights, recInput, eligibleModels, scoredModels,
                   refInput, refResult, interleaved, valInput, valErrors,
                   loadVars, detVars, selVars>>

QualityNext == QualityLevel

(***************************************************************************)
(* Part IV.  SmartModelSelector                                            *)
(***************************************************************************)

\* models={availableModels} of KampferModel
SelectorCatalog == <<ZeonStandard, KampferHd>>

\* useState<string>(currentModelId || ''): nothing selected
NoSelection == ""

\* The in-flight detections and the pending reset timeouts the model allows at
\* a time.
MaxInFlight == 2
MaxResets == 2

\* the component is not rendered
SelectorOff == [mounted |-> FALSE, rendered |-> FALSE]

NoSelector == selector = SelectorOff

\* The props a host may pass: autoDetect, currentModelId, and autoLoadBest of
\* initialPreferences.
SelectorProps ==
    [autoDetect : BOOLEAN, currentModelId : {NoSelection, "zeon-standard"},
     autoLoadBest : BOOLEAN]

\* The component after its useState initialisers, before its effects have run.
\* resetTimers counts the pending setTimeout callbacks of finished detections by
\* the age the detector's cache entry had when they were created ("prior": before
\* the entry was written); detectorCache is the entry of performanceDetector with
\* its age: "fresh" (more than a second left), "late" (its last second), "miss".
\* onModelChange is the last call of the prop (history): its argument, what made
\* it (the model list, the APPLY button, the effect), and a bit that every call
\* flips.
InitialSelector(props) ==
    [mounted |-> FALSE, rendered |-> TRUE,
     autoDetect |-> props.autoDetect,
     models |-> SelectorCatalog,
     performanceMetrics |-> Null,
     recommendation |-> Null,
     selectedModel |-> props.currentModelId,
     userPreferences |-> [autoLoadBest |-> props.autoLoadBest,
                          prioritizeQuality |-> FALSE, dataSaverMode |-> FALSE],
     loadingState |-> [detecting |-> FALSE, progress |-> 0],
     error |-> NoError,
     inFlight |-> <<>>,
     resetTimers |-> [prior |-> 0, fresh |-> 0, late |-> 0],
     detectorCache |-> [age |-> "miss"],
     onModelChange |-> [seq |-> 0, modelId |-> NoSelection, by |-> "none"]]

SelInit == selector \in {InitialSelector(props) : props \in SelectorProps}

\* the UserPreferences the engine reads
enginePreferences(userPreferences) ==
    [NoPreferences EXCEPT !.prioritizeQuality = userPreferences.prioritizeQuality,
                          !.dataSaverMode = userPreferences.dataSaverMode]

\* applyRecommendation(modelId) and handleModelSelect(modelId)
selectModel(s, modelId, by) ==
    [s EXCEPT !.selectedModel = modelId,
              !.onModelChange = [seq |-> 1 - @.seq, modelId |-> modelId, by |-> by]]

\* The effect on [recommendation, autoLoadBest, selectedModel] without the test
\* of selectedModel.
applyEffect_always(s) ==
    IF s.recommendation # Null /\ s.userPreferences.autoLoadBest
    THEN selectModel(s, s.recommendation.modelId, "effect")
    ELSE s

\* useEffect(() => { if (recommendation && userPreferences.autoLoadBest &&
\* !selectedModel) applyRecommendation(recommendation.modelId) }, [...])
applyEffect(s) ==
    IF /\ s.recommendation # Null
       /\ s.userPreferences.autoLoadBest
       /\ s.selectedModel = NoSelection
    THEN selectModel(s, s.recommendation.modelId, "effect")
    ELSE s

\* detectPerformance after the catch without the reset of loadingState
recommendationStep_stuck(s, metrics, userPreferences, age) ==
    LET rec == Recommend(defaultWeights, metrics, s.models, userPreferences, NoWeights)
    IN  IF rec.kind = "error"
        THEN [s EXCEPT !.performanceMetrics = metrics,
                       !.error = rec.message,
                       !.loadingState = [detecting |-> TRUE, progress |-> 75]]
        ELSE [s EXCEPT !.performanceMetrics = metrics,
                       !.recommendation = [modelId |-> rec.modelId,
                                           confidence |-> rec.confidence],
                       !.loadingState = [detecting |-> FALSE, progress |-> 100],
                       !.resetTimers[age] = @ + 1]

\* detectPerformance from the resolution of the awaited detector call to its end:
\* setPerformanceMetrics, calculateRecommendation with the models and preferences
\* of the closure, then setRecommendation and the reset timeout, or the catch.
recommendationStep(s, metrics, userPreferences, age) ==
    LET rec == Recommend(defaultWeights, metrics, s.models, userPreferences, NoWeights)
    IN  IF rec.kind = "error"
        THEN [s EXCEPT !.performanceMetrics = metrics,
                       !.error = rec.message,
                       !.loadingState = [detecting |-> FALSE, progress |-> 0]]
        ELSE [s EXCEPT !.performanceMetrics = metrics,
                       !.recommendation = [modelId |-> rec.modelId,
                                           confidence |-> rec.confidence],
                       !.loadingState = [detecting |-> FALSE, progress |-> 100],
                       !.resetTimers[age] = @ + 1]

\* detectPerformance() of the last render, up to its await.  A cached snapshot
\* resolves the await in the same task, so the call runs to its end; otherwise
\* the call stays in flight with the preferences of its closure (the fields the
\* engine reads).
detectPerformanceCalled(s) ==
    LET started == [s EXCEPT !.loadingState = [detecting |-> TRUE, progress |-> 25],
                             !.error = NoError]
    IN  IF s.loadingState.detecting THEN s
        ELSE IF s.detectorCache.age # "miss"
        THEN recommendationStep(started, s.detectorCache.data,
                                enginePreferences(s.userPreferences),
                                s.detectorCache.age)
        ELSE [started EXCEPT !.inFlight = Append(@, enginePreferences(s.userPreferences))]

Without(seq, i) == [k \in 1..(Len(seq) - 1) |-> IF k < i THEN seq[k] ELSE seq[k + 1]]

TimerCountOf(s) == s.resetTimers.prior + s.resetTimers.fresh + s.resetTimers.late

\* A batch of state updates is committed and the effect runs on the result.
SelectorCommit(next) ==
    LET after == applyEffect(next)
    IN  /\ Len(after.inFlight) <= MaxInFlight
        /\ TimerCountOf(after) <= MaxResets
        /\ selector' = after
        /\ UNCHANGED <<loadVars, detVars, recVars>>

\* The component mounts: useEffect(() => { if (autoDetect && models.length > 0)
\* detectPerformance() }, [autoDetect, models.length])
Mount ==
    /\ ~selector.mounted
    /\ LET s == [selector EXCEPT !.mounted = TRUE]
       IN  SelectorCommit(IF s.autoDetect /\ Len(s.models) > 0
                          THEN detectPerformanceCalled(s) ELSE s)

\* a click on a model of the list (rendered when no error is shown)
ClickModel(modelId) ==
    /\ selector.mounted
    /\ selector.error = NoError
    /\ SelectorCommit(selectModel(selector, modelId, "list"))

\* a click on APPLY of the recommendation panel
ClickApply ==
    /\ selector.mounted
    /\ selector.error = NoError
    /\ selector.recommendation # Null
    /\ SelectorCommit(selectModel(selector, selector.recommendation.modelId, "apply"))

\* one of the three checkboxes of the advanced controls
TogglePreference(field) ==
    /\ selector.mounted
    /\ selector.error = NoError
    /\ SelectorCommit([selector EXCEPT !.userPreferences[field] = ~@])

\* RE-DETECT PERFORMANCE: disabled={loadingState.detecting}
ClickRedetect ==
    /\ selector.mounted
    /\ selector.error = NoError
    /\ ~selector.loadingState.detecting
    /\ SelectorCommit(detectPerformanceCalled(selector))

\* Try again, rendered while an error is shown
ClickTryAgain ==
    /\ selector.mounted
    /\ selector.error # NoError
    /\ SelectorCommit(detectPerformanceCalled(selector))

\* performanceDetector.detectPerformance() of the i-th detection in flight
\* resolves: the detector has written its cache entry, and the call goes on.
DetectorResolves(i, settled) ==
    /\ selector.mounted
    /\ i \in 1..Len(selector.inFlight)
    /\ LET metrics == AssembleMetrics(env, settled)
           s == [selector EXCEPT
                    !.inFlight = Without(@, i),
                    !.detectorCache = [age |-> "fresh", data |-> metrics],
                    !.resetTimers = [prior |-> TimerCountOf(selector),
                                     fresh |-> 0, late |-> 0]]
       IN  SelectorCommit(recommendationStep(s, metrics, selector.inFlight[i], "fresh"))

\* setTimeout(() => setLoadingState(prev => ({...prev, detecting: false,
\* progress: 0, currentOperation: ''})), 1000)
ResetTimerFires(age) ==
    /\ selector.mounted
    /\ selector.resetTimers[age] > 0
    /\ SelectorCommit([selector EXCEPT !.resetTimers[age] = @ - 1,
                                       !.loadingState = [detecting |-> FALSE,
                                                         progress |-> 0]])

\* The cache entry enters its last second: every timeout older than the entry
\* has fired by then.
CacheAges ==
    /\ selector.mounted
    /\ selector.detectorCache.age = "fresh"
    /\ selector.resetTimers.prior = 0
    /\ SelectorCommit([selector EXCEPT !.detectorCache.age = "late"])

\* CACHE_DURATION is over: every timeout created before the last second of the
\* entry has fired by then.
CacheExpires ==
    /\ selector.mounted
    /\ selector.detectorCache.age = "late"
    /\ selector.resetTimers.prior = 0
    /\ selector.resetTimers.fresh = 0
    /\ SelectorCommit([selector EXCEPT !.detectorCache = [age |-> "miss"]])

SelectorNext ==
    \/ Mount
    \/ \E m \in 1..Len(SelectorCatalog) : ClickModel(SelectorCatalog[m].id)
    \/ ClickApply
    \/ \E field \in {"autoLoadBest", "prioritizeQuality", "dataSaverMode"} :
           TogglePreference(field)
    \/ ClickRedetect
    \/ ClickTryAgain
    \/ \E i \in 1..MaxInFlight, settled \in {AllFulfilled, AsyncRejected} :
           DetectorResolves(i, settled)
    \/ \E age \in {"prior", "fresh", "late"} : ResetTimerFires(age)
    \/ CacheAges
    \/ CacheExpires

(***************************************************************************)
(* Specifications                                                          *)
(***************************************************************************)

LoadSpecInit == LoadInit /\ DetInit /\ env = Desktop /\ RecInit /\ NoSelector

LoadSpec == LoadSpecInit /\ [][LoadNext]_vars

\* The browser runs every timeout that is due and React runs the effects of a
\* committed render; nothing obliges the user or the loader to act again.
LoadFairness ==
    /\ \A stale \in BOOLEAN : WF_vars(ProcessingTimerFires(stale))
    /\ \A stale \in BOOLEAN : WF_vars(GraceTimerFires(stale))
    /\ WF_vars(RunEffects)

LoadFairSpec == LoadSpecInit /\ [][LoadNext]_vars /\ LoadFairness

DetectSpecInit == LoadInit /\ DetInit /\ RecInit /\ NoSelector

DetectSpec == DetectSpecInit /\ [][DetNext]_vars

SpeedTestSpecInit == LoadInit /\ SpeedTestInit /\ RecInit /\ NoSelector

SpeedTestSpec == SpeedTestSpecInit /\ [][SpeedTestNext]_vars

RecommendSpecInit == LoadInit /\ DetInit /\ env = Desktop /\ RecInit /\ NoSelector

RecommendSpec == RecommendSpecInit /\ [][RecNext]_vars

CallSpecInit == LoadInit /\ DetInit /\ env = Desktop /\ CallInit /\ NoSelector

CallSpec == CallSpecInit /\ [][CallNext]_vars

ValidateSpecInit == LoadInit /\ DetInit /\ env = Desktop /\ ValidateInit /\ NoSelector

ValidateSpec == ValidateSpecInit /\ [][ValidateNext]_vars

QualitySpecInit == LoadInit /\ DetInit /\ env = Desktop /\ QualityInit /\ NoSelector

QualitySpec == QualitySpecInit /\ [][QualityNext]_vars

SelectorSpecInit ==
    LoadInit /\ DetInit /\ env \in {Desktop, Phone} /\ RecInit /\ SelInit

SelectorSpec == SelectorSpecInit /\ [][SelectorNext]_vars

(***************************************************************************)
(* Part I, properties                                                      *)
(***************************************************************************)

\* The transitions the controller's state machine lists, with the event of each.
\* "complete" is the onLoadComplete callback, "processed" the 1 s timeout started
\* by a 100% progress event, "grace" the 2 s timeout that follows it.
ListedTransition(from, to, ev) ==
    \/ from = "pending" /\ to = "loading" /\ ev = "start"
    \/ from = "loading" /\ to = "processing" /\ ev = "progress100"
    \/ from = "processing" /\ to = "ready" /\ ev \in {"complete", "processed"}
    \/ from = "ready" /\ to = "pending" /\ ev = "grace"
    \/ from \in {"loading", "processing"} /\ to = "error" /\ ev = "error"
    \/ from = "error" /\ to = "loading" /\ ev = "retry"
    \/ from \in {"loading", "processing", "error"} /\ to = "pending" /\ ev = "cancel"

\* C1: every change of loadingStatus is one of the listed transitions
\* (pending->loading on start, loading->processing on 100% progress,
\* processing->ready on completion, ready->pending after the grace period,
\* loading/processing->error on error, error->loading on retry,
\* loading/processing/error->pending on cancel); no other transition occurs.
C1_OnlyListedTransitions ==
    [][loadingStatus' # loadingStatus
         => ListedTransition(loadingStatus, loadingStatus', lastEvent')]_vars

\* A timeout of a superseded load runs in this step.
StaleTimerFires ==
    \/ timers'.staleToReady < timers.staleToReady
    \/ timers'.staleToPending < timers.staleToPending

\* C2: after handleLoadingCancel the status is pending with progress and error
\* cleared, and no timeout that belongs to a cancelled or replaced load changes
\* the status afterwards.
C2_SupersededLoadIsSilent ==
    [][/\ lastEvent' = "cancel" =>
              /\ loadingStatus' = "pending"
              /\ loadingProgress' = NoProgress
              /\ error' = NoError
       /\ StaleTimerFires => loadingStatus' = loadingStatus]_vars

\* C19: with timeouts and effects run fairly the controller never stays in ready
\* for good: from ready it always comes to another status (pending after the
\* grace period, or whatever a new load, an error or a cancel sets), whether
\* the completion callback or the timeout of the 100% progress event set ready.
C19_ReadyIsTransient == (loadingStatus = "ready") ~> (loadingStatus # "ready")

(***************************************************************************)
(* Part II, properties                                                     *)
(***************************************************************************)

\* The cache holds an entry inserted less than 5 minutes ago.
EntryValid == cache # Null /\ now < cache.timestamp + CACHE_DURATION

\* C7: a snapshot is valid for exactly 5 minutes from insertion. A call made
\* while the entry is valid returns that snapshot, runs no sub-probe and does not
\* rewrite the entry; a call made with no entry, an expired entry or after
\* clearCache runs a probe, and the probe's snapshot replaces the entry.
C7_CacheValidity ==
    [][\A c \in Callers :
         /\ (calls[c].pc # "probing" /\ calls'[c].pc = "probing") => ~EntryValid
         /\ (calls[c].pc # "probing" /\ calls'[c] # calls[c] /\ calls'[c].pc = "done") =>
                /\ EntryValid
                /\ calls'[c].result = cache.data
                /\ ~calls'[c].probed
                /\ cache' = cache
         /\ (calls[c].pc = "probing" /\ calls'[c].pc = "done") =>
                cache' = [data |-> calls'[c].result, timestamp |-> now]]_vars

\* A call answered from the cache in the last minute of the entry's validity.
C7_Witness ==
    \E c \in Callers :
        /\ calls[c].pc = "done" /\ ~calls[c].probed
        /\ cache # Null /\ calls[c].result = cache.data
        /\ now = cache.timestamp + CACHE_DURATION - 1

\* The documented default of every field, by the sub-probe that owns it.
DocumentedDefaults(m, p) ==
    CASE p = "network" ->
            /\ m.networkSpeed = 10000 /\ m.downlink = 10000
            /\ m.rtt = 50 /\ m.effectiveType = "4g"
      [] p = "device" -> m.deviceMemory = 4096 /\ m.hardwareConcurrency = 4
      [] p = "gpu" ->
            /\ m.gpuTier = "medium" /\ m.maxTextureSize = 2048
            /\ m.maxViewportDimensions = <<1920, 1080>> /\ m.shaderPrecision = "medium"
      [] p = "display" ->
            /\ m.screenResolution = [width |-> 1920, height |-> 1080]
            /\ m.pixelRatio = 100 /\ m.colorDepth = 24
      [] p = "battery" -> m.batteryLevel = 100 /\ m.isCharging = "true"

\* The fields of m owned by sub-probe p hold the value that sub-probe returned.
SubProbeValues(m, p) ==
    CASE p = "network" ->
            LET v == detectNetworkPerformance(env)
            IN  /\ m.networkSpeed = v.speed /\ m.downlink = v.downlink
                /\ m.rtt = v.rtt /\ m.effectiveType = v.effectiveType
                /\ m.saveData = v.saveData
      [] p = "device" ->
            LET v == detectDeviceCapabilities(env)
            IN  m.deviceMemory = v.memory /\ m.hardwareConcurrency = v.cores
      [] p = "gpu" ->
            LET v == detectGPUCapabilities(env)
            IN  /\ m.gpuTier = v.tier /\ m.maxTextureSize = v.maxTextureSize
                /\ m.maxViewportDimensions = v.maxViewportDimensions
                /\ m.shaderPrecision = v.shaderPrecision
      [] p = "display" ->
            LET v == detectDisplayCapabilities(env)
            IN  /\ m.screenResolution = v.resolution
                /\ m.pixelRatio = v.pixelRatio /\ m.colorDepth = v.colorDepth
      [] p = "battery" ->
            LET v == detectBatteryInfo(env)
            IN  m.batteryLevel = v.level /\ m.isCharging = "true"

AllSettled(settled) == \A p \in Probes : settled[p] \in {"fulfilled", "rejected"}

\* C9: the snapshot is assembled, scored and written to the cache only after
\* all five sub-probes have settled; a sub-probe that fails early never makes the
\* call finish while another is pending.
C9_WaitForAll ==
    [][/\ \A c \in Callers :
              (calls[c].pc = "probing" /\ calls'[c].pc # "probing") =>
                  AllSettled(calls[c].settled)
       /\ (cache' # cache /\ cache' # Null) =>
              \E c \in Callers :
                  /\ calls[c].pc = "probing" /\ AllSettled(calls[c].settled)
                  /\ calls'[c].pc = "done"
                  /\ cache'.data = calls'[c].result]_vars

\* A finished probe whose network sub-probe failed while others succeeded, its
\* snapshot in the cache.
C9_Witness ==
    \E c \in Callers :
        /\ calls[c].pc = "done" /\ calls[c].probed
        /\ calls[c].settled["network"] = "rejected"
        /\ calls[c].settled["gpu"] = "fulfilled"
        /\ cache # Null /\ cache.data = calls[c].result

\* the snapshots detectPerformance has returned or cached
ProducedSnapshots ==
    {calls[c].result : c \in {d \in Callers : calls[d].result # Null}}
    \cup (IF cache # Null THEN {cache.data} ELSE {})

\* The four sub-scores of a snapshot in half points (0..200), each capped at 100
\* points: throughput against 50 Mbps, memory against 16 GB, the tier table,
\* pixels against 1920 x 1080.
NetworkHalfPoints(m) == Min(200, m.networkSpeed \div 250)
MemoryHalfPoints(m) == Min(200, (m.deviceMemory * 25) \div 2048)
TierHalfPoints(m) == IF m.gpuTier = "high" THEN 180 ELSE IF m.gpuTier = "medium" THEN 120 ELSE 50
DisplayHalfPoints(m) ==
    Min(200, (m.screenResolution.width * m.screenResolution.height) \div 10368)

\* 200 times the weighted sum: network 30%, memory 25%, tier 30%, display 15%
WeightedHalfPoints(m) ==
    30 * NetworkHalfPoints(m) + 25 * MemoryHalfPoints(m)
    + 30 * TierHalfPoints(m) + 15 * DisplayHalfPoints(m)

\* the band of a score: 0-39 low, 40-59 medium, 60-79 high, 80-100 ultra
QualityBand(score) ==
    CASE score \in 0..39 -> "low"
      [] score \in 40..59 -> "medium"
      [] score \in 60..79 -> "high"
      [] score \in 80..100 -> "ultra"

EveryFetchFails ==
    \A i \in 1..Len(testUrls) : testUrls[i] = "data" \/ env.fetches[i].kind # "ok"

\* the snapshots of the calls that probed and whose network sub-probe fulfilled
NetworkProbed ==
    {calls[c].result :
        c \in {d \in Callers : /\ calls[d].pc = "done"
                               /\ calls[d].probed
                               /\ calls[d].settled["network"] = "fulfilled"}}

\* C15: when every candidate fetch fails, the network part of the snapshot is the
\* connection hints where the browser reports them (throughput = downlink, class
\* = effectiveType, rtt, saveData) and the defaults 10 Mbps, 50 ms, 4g otherwise.
C15_FallbackToHints ==
    EveryFetchFails =>
        \A m \in NetworkProbed :
            IF env.connection.present
            THEN /\ m.networkSpeed = env.connection.downlink
                 /\ m.effectiveType = env.connection.effectiveType
                 /\ m.rtt = env.connection.rtt
                 /\ m.saveData = env.connection.saveData
            ELSE /\ m.networkSpeed = 10000
                 /\ m.effectiveType = "4g"
                 /\ m.rtt = 50

\* the candidates that are fetched at all, and those whose fetch fails
Remote == {i \in 1..Len(testUrls) : testUrls[i] # "data"}
Failing == {i \in Remote : env.fetches[i].kind # "ok"}
FetchStarted == {speedTestRun.started[k] : k \in 1..Len(speedTestRun.started)}

\* the fetches that have been started and have settled: all but one in flight
FetchSettled ==
    IF speedTestRun.pc = "fetching"
    THEN {speedTestRun.started[k] : k \in 1..(Len(speedTestRun.started) - 1)}
    ELSE FetchStarted

\* C16: the speed test fetches its candidates in list order, one at a time: a
\* fetch is started only after every earlier remote candidate has been fetched
\* and has failed; a data: entry is never fetched; the result comes from the
\* first candidate that succeeds and no candidate after it is fetched; when
\* every candidate fails the fallback values are returned.
C16_SequentialCandidates ==
    /\ \A a, b \in 1..Len(speedTestRun.started) :
           a < b => speedTestRun.started[a] < speedTestRun.started[b]
    /\ FetchStarted \subseteq Remote
    /\ \A i \in FetchStarted :
           \A j \in Remote : j < i => (j \in FetchSettled /\ j \in Failing)
    /\ speedTestRun.pc = "done" =>
           /\ FetchSettled = FetchStarted
           /\ IF Remote \subseteq Failing
              THEN /\ FetchStarted = Remote
                   /\ speedTestRun.result = [speed |-> 10000, latency |-> 50, jitter |-> 5]
              ELSE \E i \in Remote \ Failing :
                      /\ \A j \in Remote \ Failing : i <= j
                      /\ FetchStarted = {j \in Remote : j <= i}
                      /\ speedTestRun.result.speed =
                             Max(100, (env.fetches[i].bytes * 8) \div env.fetches[i].ms)

\* the first candidate failed, the second succeeded and gave the result
C16_Witness ==
    /\ speedTestRun.pc = "done"
    /\ speedTestRun.started = <<1, 2>>
    /\ env.fetches[1].kind = "notok"
    /\ env.fetches[2].kind = "ok"
    /\ speedTestRun.result.speed = 1000

\* a snapshot with both derived fields computed from its own measurements
Complete(m) ==
    /\ m.overallScore \in 0..100
    /\ 200 * m.overallScore - 100 <= WeightedHalfPoints(m)
    /\ WeightedHalfPoints(m) < 200 * m.overallScore + 100
    /\ m.recommendedQuality = QualityBand(m.overallScore)

\* the calls that missed the cache while another call was probing and have
\* returned
RacedAndDone == {c \in Callers : calls[c].pc = "done" /\ calls[c].probed /\ calls[c].raced}

\* C17: calls of detectPerformance that overlap on an empty or expired cache
\* each return a complete snapshot; the cache never holds a partial snapshot,
\* and once all of them have returned the entry left in the cache is the
\* snapshot one of them computed.
C17_CacheRace ==
    /\ \A c \in RacedAndDone : Complete(calls[c].result)
    /\ cache # Null => Complete(cache.data)
    /\ (RacedAndDone = Callers /\ cache # Null) =>
           \E c \in Callers : cache.data = calls[c].result

\* two overlapping calls have returned different snapshots and the cache holds
\* one of the two
C17_Witness ==
    /\ RacedAndDone = Callers
    /\ calls["mount"].result # calls["redetect"].result
    /\ cache # Null
    /\ cache.data = calls["mount"].result
    /\ calls["mount"].result.overallScore # 0

(***************************************************************************)
(* Part III, properties                                                    *)
(***************************************************************************)

\* a call of calculateRecommendation has been made
Called == recInput # NoCall

\* the ids of the descriptors that passed the filter in the last call
EligibleIds == {eligibleModels[i].id : i \in 1..Len(eligibleModels)}

\* C3: calculateRecommendation never returns an excluded descriptor as the winner
\* while a descriptor that is eligible and not excluded exists.
C3_ExcludedNeverWins ==
    (/\ Called
     /\ recResult.kind = "recommendation"
     /\ EligibleIds \ recInput.userPreferences.excludedModels # {})
    => recResult.modelId \notin recInput.userPreferences.excludedModels

\* graphics tiers in the order low < medium < high
TierAtLeast(tier, required) == required = "low" \/ tier = "high" \/ tier = required

\* the snapshot meets one declared minimum-requirement field
MeetsRequirement(metrics, requirements, field) ==
    CASE field = "networkSpeed" -> metrics.networkSpeed >= requirements.networkSpeed
      [] field = "deviceMemory" -> metrics.deviceMemory >= requirements.deviceMemory
      [] field = "gpuTier" -> TierAtLeast(metrics.gpuTier, requirements.gpuTier)
      [] field = "webglVersion" -> metrics.webglVersion >= requirements.webglVersion

MeetsAllDeclared(model, metrics) ==
    \/ model.minRequirements = Null
    \/ \A field \in DOMAIN model.minRequirements :
           MeetsRequirement(metrics, model.minRequirements, field)

\* C4: filterEligibleModels keeps a descriptor if and only if the snapshot meets
\* every minimum-requirement field the descriptor declares (a descriptor without
\* minRequirements is always kept); for the snapshot {1 Mbps, 2 GB, low} and the
\* catalog A(network >= 10, memory >= 8, gpu >= high), B(no minRequirements) the
\* result is exactly B.
C4_EligibleIffRequirementsMet ==
    Called =>
        /\ eligibleModels =
               SelectSeq(recInput.models,
                         LAMBDA model : MeetsAllDeclared(model, recInput.metrics))
        /\ (recInput.metrics = ExampleSnapshot /\ recInput.models = <<KampferHd, TestModel>>)
               => eligibleModels = <<TestModel>>

C4_Witness ==
    /\ Called
    /\ recInput.metrics = ExampleSnapshot
    /\ recInput.metrics.networkSpeed = 1000
    /\ recInput.metrics.deviceMemory = 2048
    /\ recInput.models = <<KampferHd, TestModel>>
    /\ eligibleModels = <<TestModel>>

\* C5: calculateRecommendation throws the "no models meet the minimum
\* requirements" error exactly when the filter leaves no descriptor (an empty
\* catalog included); otherwise it returns a recommendation whose modelId is the
\* id of a descriptor that passed the filter.
C5_ErrorIffNoneEligible ==
    Called =>
        IF eligibleModels = <<>>
        THEN recResult = NoEligibleModels
        ELSE recResult.kind = "recommendation" /\ recResult.modelId \in EligibleIds

C5_Witness ==
    /\ Called
    /\ recInput.models # <<>>
    /\ eligibleModels = <<>>
    /\ recResult = NoEligibleModels

\* C6: when a descriptor of the catalog declares no minRequirements, the filter
\* returns at least one descriptor and calculateRecommendation does not throw.
C6_UndeclaredKeepsFilterNonEmpty ==
    (/\ Called
     /\ \E i \in 1..Len(recInput.models) : recInput.models[i].minRequirements = Null)
    => (eligibleModels # <<>> /\ recResult # NoEligibleModels)

C6_Witness ==
    /\ Called
    /\ recInput.models = <<KampferUltra, TestModelCopy>>
    /\ eligibleModels = <<TestModelCopy>>
    /\ recResult.kind = "recommendation"

Returned == recResult # NoCall /\ recResult.kind = "recommendation"

\* the final score of a descriptor in the last call
FinalScore(model) ==
    calculateModelScore(model, recInput.metrics,
                        mergeWeights(DefaultWeights, recInput.customWeights),
                        recInput.userPreferences)

EligibleSet == {eligibleModels[i] : i \in 1..Len(eligibleModels)}

\* C12: the winner's final score is at least that of every eligible descriptor;
\* the alternatives are the next three eligible descriptors by final score (fewer
\* when fewer exist) in descending order, without the winner and without any
\* ineligible descriptor.
C12_Ranking ==
    Returned =>
        LET alt == recResult.alternative
            altSet == {alt[i] : i \in 1..Len(alt)}
            winners == {m \in EligibleSet : m.id = recResult.modelId}
        IN  /\ Cardinality(winners) = 1
            /\ \A w \in winners, m \in EligibleSet : FinalScore(w) >= FinalScore(m)
            /\ Len(alt) = Min(3, Len(eligibleModels) - 1)
            /\ Cardinality(altSet) = Len(alt)
            /\ altSet \subseteq EligibleSet \ winners
            /\ \A i, j \in 1..Len(alt) : i < j => FinalScore(alt[i]) >= FinalScore(alt[j])
            /\ \A a \in altSet, m \in (EligibleSet \ winners) \ altSet :
                   FinalScore(a) >= FinalScore(m)

\* five eligible descriptors of at least three different scores: three
\* alternatives are listed and one descriptor is left out
C12_Witness ==
    /\ Returned
    /\ Len(eligibleModels) = 5
    /\ Len(recResult.alternative) = 3
    /\ Cardinality({FinalScore(m) : m \in EligibleSet}) >= 3
    /\ recInput.models[1].id # recResult.modelId

\* a string property is empty, missing or made of blanks only
Unusable(s) == ~s.present \/ \A i \in 1..Len(s.value) : s.value[i] = " "

\* the rules a descriptor violates, each named by its error
ViolatedRules(model) ==
    (IF Unusable(model.id) THEN {"Model ID is required"} ELSE {})
    \cup (IF Unusable(model.name) THEN {"Model name is required"} ELSE {})
    \cup (IF Unusable(model.url) THEN {"Model URL is required"} ELSE {})
    \cup (IF model.fileSize.present /\ model.fileSize.value > 0
          THEN {} ELSE {"File size must be greater than 0"})
    \cup (IF model.quality.present
             /\ model.quality.value \in {"low", "medium", "high", "ultra"}
          THEN {} ELSE {"Quality must be one of: low, medium, high, ultra"})

\* C13: validateModelConfiguration returns no error for a descriptor with usable
\* id, name and url, a positive fileSize and a quality of the enumerated set, and
\* exactly one error, different from the others, for each rule that is violated.
C13_OneErrorPerViolatedRule ==
    valErrors.called =>
        /\ {valErrors.errors[i] : i \in 1..Len(valErrors.errors)} = ViolatedRules(valInput)
        /\ Len(valErrors.errors) = Cardinality(ViolatedRules(valInput))

\* a descriptor that violates every rule in a different way: a missing id, a name
\* of blanks, an empty url, a negative size, an unknown quality
C13_Witness ==
    /\ valErrors.called
    /\ Len(valErrors.errors) = 5
    /\ ~valInput.id.present
    /\ valInput.name = Given(<<" ", " ">>)
    /\ valInput.url = Given(<<>>)
    /\ valInput.fileSize = Given(-1)
    /\ valInput.quality = Given("extreme")

\* the weight of a factor in the last call: the caller's when supplied, else the
\* documented default
WeightOf(factor, default) ==
    IF factor \in DOMAIN recInput.customWeights
    THEN recInput.customWeights[factor]
    ELSE default

\* 100 * (50 + the sum over the six factors of (sub-score - 50) * weight)
WeightedSum(model) ==
    LET metrics == recInput.metrics
        userPreferences == recInput.userPreferences
    IN  5000
        + (calculateNetworkScore(model, metrics) - 50) * WeightOf("networkSpeed", 25)
        + (calculateMemoryScore(model, metrics) - 50) * WeightOf("deviceMemory", 20)
        + (calculateGPUScore(model, metrics) - 50) * WeightOf("gpuPerformance", 25)
        + (calculateBatteryScore(model, metrics) - 50) * WeightOf("batteryLevel", 10)
        + (calculateDataSaverScore(model, metrics, userPreferences) - 50)
              * WeightOf("dataSaver", 10)
        + (calculatePreferenceScore(model, userPreferences) - 50)
              * WeightOf("userPreference", 10)

\* round(clamp(x, 0, 100)), halves upwards
RoundOfClamped(model) == (Max(0, Min(10000, WeightedSum(model))) + 50) \div 100

\* C14: the final score of every eligible descriptor is round(clamp(50 + the sum
\* of (sub-score - 50) x weight, 0, 100)) with the caller's weight for the factors
\* the caller supplies and the defaults 0.25, 0.20, 0.25, 0.10, 0.10, 0.10 for the
\* others; it is an integer in 0..100; the confidence is the winner's score / 100.
C14_FinalScore ==
    recResult # NoCall =>
        /\ Len(scoredModels) = Len(eligibleModels)
        /\ \A i \in 1..Len(scoredModels) :
               /\ scoredModels[i].model \in EligibleSet
               /\ scoredModels[i].score = RoundOfClamped(scoredModels[i].model)
               /\ scoredModels[i].score \in 0..100
        /\ Returned =>
               /\ scoredModels[1].model.id = recResult.modelId
               /\ recResult.confidence = scoredModels[1].score
               /\ recResult.confidence \in 0..100

\* a call that overrides two of the six weights, and a winner whose score is
\* neither 0 nor 100 and differs from its score under the default weights
C14_Witness ==
    /\ Returned
    /\ recInput.customWeights = [networkSpeed |-> 50, userPreference |-> 100]
    /\ Len(scoredModels) = 2
    /\ recResult.confidence \in 1..99
    /\ \E i \in 1..2 :
           /\ scoredModels[i].model.id \in recInput.userPreferences.excludedModels
           /\ scoredModels[i].score #
                  calculateModelScore(scoredModels[i].model, recInput.metrics,
                                      DefaultWeights, recInput.userPreferences)

QualityRank(q) == CASE q = "low" -> 1 [] q = "medium" -> 2 [] q = "high" -> 3 [] q = "ultra" -> 4

\* the user-preference sub-score as documented: 50, plus 30 for the preferred
\* quality, plus the quality bonus when prioritizeQuality is set, else the
\* performance bonus when prioritizePerformance is set, within 0..100
DocumentedPreferenceScore(model, p) ==
    LET preferred == IF p.preferredQuality = model.quality THEN 30 ELSE 0
        direction ==
            CASE p.prioritizeQuality -> 10 * QualityRank(model.quality)
              [] ~p.prioritizeQuality /\ p.prioritizePerformance ->
                     50 - 10 * QualityRank(model.quality)
              [] OTHER -> 0
    IN  Max(0, Min(100, 50 + preferred + direction))

\* C20: for every scored descriptor that is not excluded the user-preference
\* sub-score is 50, +30 when its quality is the preferred one, plus the quality
\* bonus (10/20/30/40) when prioritizeQuality is set, the performance bonus
\* (40/30/20/10) when only prioritizePerformance is set, only the quality bonus
\* when both are set, no bonus when neither is, clamped to 0..100; with all the
\* weight on this factor it is the final score.
C20_PreferenceScore ==
    recResult # NoCall =>
        \A i \in 1..Len(scoredModels) :
            LET model == scoredModels[i].model
                p == recInput.userPreferences
            IN  model.id \notin p.excludedModels =>
                   /\ calculatePreferenceScore(model, p) = DocumentedPreferenceScore(model, p)
                   /\ recInput.customWeights = PreferenceOnly =>
                          scoredModels[i].score = DocumentedPreferenceScore(model, p)

\* both flags set on a descriptor of the preferred quality: 50 + 30 + 30 is cut
\* to 100, and the performance bonus is not added
C20_Witness ==
    /\ recResult # NoCall
    /\ recInput.customWeights = PreferenceOnly
    /\ recInput.userPreferences.prioritizeQuality
    /\ recInput.userPreferences.prioritizePerformance
    /\ recInput.userPreferences.preferredQuality = "high"
    /\ recInput.userPreferences.excludedModels = {}
    /\ Len(scoredModels) = 1
    /\ scoredModels[1].model.quality = "high"
    /\ scoredModels[1].score = 100

\* the network sub-score as documented: the download time in seconds is the
\* size in bits / 1,000,000 over the throughput in Mbps.  A size unit is 204.8
\* bytes and the throughput is in kbit/s, so t < k is size * 1024 < k * 625 * speed.
DocumentedNetworkScore(model, metrics) ==
    LET megabits == model.fileSize * 1024
        perSecond == 625 * metrics.networkSpeed
    IN  IF megabits < 2 * perSecond THEN 90
        ELSE IF megabits < 5 * perSecond THEN 75
        ELSE IF megabits < 10 * perSecond THEN 60
        ELSE IF megabits < 20 * perSecond THEN 40
        ELSE 20

\* C21: for every scored descriptor and every snapshot with a throughput above
\* 0, the network sub-score is 90, 75, 60, 40 or 20 as the download time
\* t = (size in bytes x 8 / 1,000,000) / throughput in Mbps is below 2, 5, 10,
\* 20 seconds or not; with all the weight on this factor it is the final score.
C21_NetworkScore ==
    (recResult # NoCall /\ recInput.metrics.networkSpeed > 0) =>
        \A i \in 1..Len(scoredModels) :
            LET model == scoredModels[i].model
            IN  /\ calculateNetworkScore(model, recInput.metrics)
                       = DocumentedNetworkScore(model, recInput.metrics)
                /\ recInput.customWeights = NetworkOnly =>
                       scoredModels[i].score
                           = DocumentedNetworkScore(model, recInput.metrics)

\* the quality impact in tenths: low 0.1, medium 0.3, high 0.6, ultra 1.0
QualityImpact(q) ==
    CASE q = "low" -> 1 [] q = "medium" -> 3 [] q = "high" -> 6 [] q = "ultra" -> 10

\* the battery sub-score as documented, the first matching rule deciding
DocumentedBatteryScore(model, metrics) ==
    CASE metrics.batteryLevel = Undefined -> 80
      [] metrics.batteryLevel # Undefined /\ metrics.isCharging = "true" -> 80
      [] OTHER ->
           LET level == metrics.batteryLevel
               impact == QualityImpact(model.quality)
           IN  IF level < 20 /\ impact > 5 THEN 20
               ELSE IF level < 50 /\ impact > 7 THEN 40
               ELSE IF level < 30 THEN 60
               ELSE 85

\* C22: the battery sub-score of every scored descriptor is 80 when the snapshot
\* carries no power state or the device is charging; otherwise, with the impact
\* 0.1/0.3/0.6/1.0 of its quality, 20 for level < 0.2 and impact > 0.5, else 40
\* for level < 0.5 and impact > 0.7, else 60 for level < 0.3, else 85; with all
\* the weight on this factor it is the final score.
C22_BatteryScore ==
    recResult # NoCall =>
        \A i \in 1..Len(scoredModels) :
            LET model == scoredModels[i].model
            IN  /\ calculateBatteryScore(model, recInput.metrics)
                       = DocumentedBatteryScore(model, recInput.metrics)
                /\ recInput.customWeights = BatteryOnly =>
                       scoredModels[i].score
                           = DocumentedBatteryScore(model, recInput.metrics)

\* an empty battery on a discharging device and an ultra descriptor: 20
C22_Witness ==
    /\ recResult # NoCall
    /\ recInput.customWeights = BatteryOnly
    /\ recInput.metrics.batteryLevel = 0
    /\ recInput.metrics.isCharging = "false"
    /\ Len(scoredModels) = 1
    /\ scoredModels[1].model.quality = "ultra"
    /\ scoredModels[1].score = 20

\* C23: in every reachable state of the loading controller the message is
\* 'Failed to load 3D model' when the status is error and null when the status
\* is pending, loading, processing or ready (so retry, cancel and a model change,
\* which leave the error status, leave no message).
C23_ErrorAgrees ==
    /\ loadingStatus = "error" => error = LoadErrorMessage
    /\ loadingStatus \in {"pending", "loading", "processing", "ready"} => error = NoError

\* the snapshots of the calls that probed and whose battery sub-probe fulfilled
BatteryProbed ==
    {calls[c].result :
        c \in {d \in Callers : /\ calls[d].pc = "done"
                               /\ calls[d].probed
                               /\ calls[d].settled["battery"] = "fulfilled"}}

\* C25: when the power-status API is available the snapshot carries its level
\* and its charging flag, whatever they are; level 1 and charging true are the
\* values only when the API is absent or fails.
C25_BatteryAsReported ==
    \A m \in BatteryProbed :
        IF env.battery.api = "ok"
        THEN /\ m.batteryLevel = env.battery.level
             /\ m.isCharging = (IF env.battery.charging THEN "true" ELSE "false")
        ELSE /\ m.batteryLevel = 100
             /\ m.isCharging = "true"

\* the connection class of a throughput by the documented thresholds 0.05, 0.1
\* and 1 Mbps
DocumentedClass(speed) ==
    CASE speed < 50 -> "slow-2g"
      [] speed >= 50 /\ speed < 100 -> "2g"
      [] speed >= 100 /\ speed < 1000 -> "3g"
      [] OTHER -> "4g"

\* the candidate whose download the speed test timed
Timed == CHOOSE i \in Remote \ Failing : \A j \in Remote \ Failing : i <= j

\* C26: after a timed download the speed test reports max(0.1 Mbps, measured),
\* the network sub-probe carries that value as speed and downlink and the class
\* the thresholds give for it, which is never slow-2g or 2g.
C26_MeasuredClass ==
    (speedTestRun.pc = "done" /\ Remote \ Failing # {}) =>
        LET f == env.fetches[Timed]
            network == detectNetworkPerformance(env)
        IN  /\ speedTestRun.result.speed = Max(100, (f.bytes * 8) \div f.ms)
            /\ network.speed = speedTestRun.result.speed
            /\ network.downlink = speedTestRun.result.speed
            /\ network.effectiveType = DocumentedClass(speedTestRun.result.speed)
            /\ network.effectiveType \notin {"slow-2g", "2g"}

\* a download so slow that the floor of 0.1 Mbps is reported, with class 3g
C26_Witness ==
    /\ speedTestRun.pc = "done"
    /\ Remote \ Failing # {}
    /\ (env.fetches[Timed].bytes * 8) \div env.fetches[Timed].ms < 50
    /\ speedTestRun.result.speed = 100
    /\ detectNetworkPerformance(env).effectiveType = "3g"

(***************************************************************************)
(* Part IV, properties                                                     *)
(***************************************************************************)

\* A detection ends in the catch: the error message appears in this step.
DetectionFails == selector.error = NoError /\ selector'.error # NoError

\* A detection is started from the error display and waits for the detector.
RetryStarts ==
    /\ selector.error # NoError
    /\ Len(selector'.inFlight) > Len(selector.inFlight)

\* C24: when the recommendation step of a detection fails, the failure is shown
\* as the error text: after that step detecting is false, progress is 0, the
\* text is the engine's message, the selection is as before and onModelChange
\* was not called; and a detection started from the error display afterwards
\* clears the text.
C24_FailureIsShown ==
    [][/\ DetectionFails =>
            /\ selector'.error = NoEligibleModels.message
            /\ ~selector'.loadingState.detecting
            /\ selector'.loadingState.progress = 0
            /\ selector'.selectedModel = selector.selectedModel
            /\ selector'.onModelChange = selector.onModelChange
       /\ RetryStarts =>
            /\ selector'.error = NoError
            /\ selector'.loadingState.detecting]_vars

\* the error is shown after a failed detection of a selector with a selection,
\* and later a retry is waiting for the detector with the text cleared
C24_Witness ==
    /\ selector.mounted
    /\ selector.error = NoError
    /\ selector.loadingState.detecting
    /\ Len(selector.inFlight) = 1
    /\ selector.performanceMetrics # Null
    /\ selector.recommendation = Null
    /\ selector.selectedModel = "zeon-standard"
    /\ selector.onModelChange.by = "none"

\* The selection changes or onModelChange is called in this step.
SelectionChanges ==
    \/ selector'.selectedModel # selector.selectedModel
    \/ selector'.onModelChange # selector.onModelChange

\* The step is a click on a model of the list or on APPLY.
UserChooses ==
    \/ \E m \in 1..Len(SelectorCatalog) : ClickModel(SelectorCatalog[m].id)
    \/ ClickApply

\* C27: the selection changes and onModelChange is called only by a click on a
\* model or on APPLY, or by the component itself when nothing was selected,
\* autoLoadBest is set and there is a recommendation, which is then the model
\* selected; so once a model is selected only a click changes the selection.
C27_OnlyClicksReplaceSelection ==
    [][SelectionChanges =>
           \/ UserChooses
           \/ /\ selector.selectedModel = NoSelection
              /\ selector'.userPreferences.autoLoadBest
              /\ selector'.recommendation # Null
              /\ selector'.selectedModel = selector'.recommendation.modelId
              /\ selector'.onModelChange.modelId = selector'.recommendation.modelId
              /\ selector'.onModelChange.by = "effect"]_vars

\* the user has chosen a model from the list, a detection has just ended with a
\* recommendation for another model, autoLoadBest is set, and the last call of
\* onModelChange is still the one of the click
C27_Witness ==
    /\ selector.mounted
    /\ selector.selectedModel = "kampfer-hd"
    /\ selector.userPreferences.autoLoadBest
    /\ selector.recommendation # Null
    /\ selector.recommendation.modelId = "zeon-standard"
    /\ selector.loadingState.progress = 100
    /\ selector.onModelChange.by = "list"
    /\ selector.onModelChange.modelId = "kampfer-hd"

\* C28: the selector never has two detections in flight: a call of
\* detectPerformance made while an earlier detection waits for the detector
\* starts no further one.
C28_OneDetectionAtATime == Len(selector.inFlight) <= 1

\* C29: for a snapshot whose recommendedQuality is the band of its overallScore
\* the engine's quality level is never a higher tier than recommendedQuality,
\* whatever the throughput and the graphics tier.
C29_LevelNotAboveDetector ==
    recResult # NoCall =>
        QualityRank(recResult.quality) <= QualityRank(recInput.recommendedQuality)

\* the engine reaches its highest tier at the lowest score that allows it
C29_Witness ==
    /\ recResult # NoCall
    /\ recInput.overallScore = 85
    /\ recInput.recommendedQuality = "ultra"
    /\ recResult.quality = "ultra"

\* the texts of a list of messages
Messages(list) == {list[i] : i \in 1..Len(list)}

\* C30: in every recommendation for a snapshot with a known battery level on a
\* device that is not charging, the warnings include "May drain battery quickly"
\* when the level is below 0.2 and the reasoning includes "Selected to conserve
\* battery life" when it is below 0.3, level 0 included; neither message is given
\* when the device is charging or the level is unknown.
C30_LowBatteryMessages ==
    Returned =>
        LET metrics == recInput.metrics
            discharging == metrics.batteryLevel # Undefined /\ metrics.isCharging = "false"
            silent == metrics.batteryLevel = Undefined \/ metrics.isCharging = "true"
        IN  /\ (discharging /\ metrics.batteryLevel < 20) =>
                   "May drain battery quickly" \in Messages(recResult.warnings)
            /\ (discharging /\ metrics.batteryLevel < 30) =>
                   "Selected to conserve battery life" \in Messages(recResult.reasoning)
            /\ silent =>
                   /\ "May drain battery quickly" \notin Messages(recResult.warnings)
                   /\ "Selected to conserve battery life" \notin Messages(recResult.reasoning)

====
